---- MODULE Spec2Model ----
(***************************************************************************)
(* Advisor hub: the scraping-and-ingestion pipeline (server/scraper.ts,    *)
(* server/ai-rewriter.ts, scripts/run-scraper.ts), the slug helper of      *)
(* shared/schema.ts and the advisor endpoints that share its storage.      *)
(*                                                                         *)
(* A text is a sequence of one-character strings; the empty sequence       *)
(* stands for both the empty string and an absent (undefined) optional     *)
(* text, which the code treats alike wherever it tests them (truthiness).  *)
(* The fixed wording of a template literal is kept as one element.         *)
(***************************************************************************)
EXTENDS Integers, Sequences, FiniteSets, TLC

\* ------------------------------------------------------------------------
\* Bounds of the model
\* ------------------------------------------------------------------------
MaxPages == 2
MaxRuns == 2
MaxDbFailures == 1
MaxApiPosts == 1
MaxLeads == 2
MaxBlogPosts == 2
MaxDealerRequests == 2

\* ------------------------------------------------------------------------
\* Text primitives (String.prototype methods used by the code)
\* ------------------------------------------------------------------------
Empty == << >>

LowerOf ==
  [A |-> "a", B |-> "b", C |-> "c", D |-> "d", E |-> "e", F |-> "f", G |-> "g", H |-> "h", I |-> "i", J |-> "j", K |-> "k", L |-> "l", M |-> "m",
   N |-> "n", O |-> "o", P |-> "p", Q |-> "q", R |-> "r", S |-> "s", T |-> "t", U |-> "u", V |-> "v", W |-> "w", X |-> "x", Y |-> "y", Z |-> "z"]

UpperOf ==
  [a |-> "A", b |-> "B", c |-> "C", d |-> "D", e |-> "E", f |-> "F", g |-> "G", h |-> "H", i |-> "I", j |-> "J", k |-> "K", l |-> "L", m |-> "M",
   n |-> "N", o |-> "O", p |-> "P", q |-> "Q", r |-> "R", s |-> "S", t |-> "T", u |-> "U", v |-> "V", w |-> "W", x |-> "X", y |-> "Y", z |-> "Z"]

UpperLetters == DOMAIN LowerOf

LowerLetters == DOMAIN UpperOf

Digits == {"0", "1", "2", "3", "4", "5", "6", "7", "8", "9"}

WhiteSpace == {" ", "\t", "\n"}

Range(s) == {s[i] : i \in DOMAIN s}

Min(a, b) == IF a < b THEN a ELSE b

LowerChar(c) == IF c \in UpperLetters THEN LowerOf[c] ELSE c

UpperChar(c) == IF c \in LowerLetters THEN UpperOf[c] ELSE c

toLowerCase(s) == [i \in 1..Len(s) |-> LowerChar(s[i])]

toUpperCase(s) == [i \in 1..Len(s) |-> UpperChar(s[i])]

substring(s, from, to) == SubSeq(s, from + 1, Min(to, Len(s)))

trim(s) ==
  LET solid == {i \in 1..Len(s) : s[i] \notin WhiteSpace}
  IN  IF solid = {} THEN Empty
      ELSE SubSeq(s, CHOOSE i \in solid : \A k \in solid : i <= k,
                     CHOOSE i \in solid : \A k \in solid : i >= k)

includes(s, sub) ==
  \/ sub = Empty
  \/ \E i \in 1..(Len(s) - Len(sub) + 1) :
       s[i] = sub[1] /\ SubSeq(s, i, i + Len(sub) - 1) = sub

RECURSIVE join(_, _)
join(parts, sep) ==
  IF parts = << >> THEN Empty
  ELSE IF Len(parts) = 1 THEN parts[1]
  ELSE parts[1] \o sep \o join(Tail(parts), sep)

RECURSIVE split(_, _)
split(s, sep) ==
  IF \E i \in 1..Len(s) : s[i] = sep
  THEN LET i == CHOOSE i \in 1..Len(s) : s[i] = sep /\ \A k \in 1..(i - 1) : s[k] # sep
       IN  <<SubSeq(s, 1, i - 1)>> \o split(SubSeq(s, i + 1, Len(s)), sep)
  ELSE <<s>>

\* ------------------------------------------------------------------------
\* shared/schema.ts: generateAdvisorSlug
\* ------------------------------------------------------------------------
SlugMaxLen == 100

AlnumChars == LowerLetters \cup Digits

IsAlnum(c) == c \in AlnumChars

\* .replace(/[^a-z0-9]+/g, '-'): every maximal run of other characters
\* becomes one hyphen
replaceNonAlnumRuns(s) ==
  LET marked == [i \in 1..Len(s) |->
                   [ch   |-> IF IsAlnum(s[i]) THEN s[i] ELSE "-",
                    keep |-> IsAlnum(s[i]) \/ i = 1 \/ IsAlnum(s[i - 1])]]
      kept   == SelectSeq(marked, LAMBDA m : m.keep)
  IN  [n \in 1..Len(kept) |-> kept[n].ch]

\* .replace(/^-|-$/g, ''): one hyphen at the start and one at the end
stripEdgeHyphens(s) ==
  LET a == IF s # Empty /\ s[1] = "-" THEN Tail(s) ELSE s
  IN  IF a # Empty /\ a[Len(a)] = "-" THEN SubSeq(a, 1, Len(a) - 1) ELSE a

generateAdvisorSlug(name, city, primarySpecialty) ==
  LET parts == IF primarySpecialty # Empty
               THEN <<name, city, primarySpecialty>>
               ELSE <<name, city>>
  IN  substring(stripEdgeHyphens(replaceNonAlnumRuns(toLowerCase(join(parts, <<"-">>)))),
                0, SlugMaxLen)

\* ------------------------------------------------------------------------
\* server/scraper.ts: location normaliser
\* ------------------------------------------------------------------------
STATE_NAMES ==
  << [abbr |-> <<"A", "L">>, name |-> <<"A", "l", "a", "b", "a", "m", "a">>],
     [abbr |-> <<"A", "K">>, name |-> <<"A", "l", "a", "s", "k", "a">>],
     [abbr |-> <<"A", "Z">>, name |-> <<"A", "r", "i", "z", "o", "n", "a">>],
     [abbr |-> <<"A", "R">>, name |-> <<"A", "r", "k", "a", "n", "s", "a", "s">>],
     [abbr |-> <<"C", "A">>, name |-> <<"C", "a", "l", "i", "f", "o", "r", "n", "i", "a">>],
     [abbr |-> <<"C", "O">>, name |-> <<"C", "o", "l", "o", "r", "a", "d", "o">>],
     [abbr |-> <<"C", "T">>, name |-> <<"C", "o", "n", "n", "e", "c", "t", "i", "c", "u", "t">>],
     [abbr |-> <<"D", "E">>, name |-> <<"D", "e", "l", "a", "w", "a", "r", "e">>],
     [abbr |-> <<"F", "L">>, name |-> <<"F", "l", "o", "r", "i", "d", "a">>],
     [abbr |-> <<"G", "A">>, name |-> <<"G", "e", "o", "r", "g", "i", "a">>],
     [abbr |-> <<"H", "I">>, name |-> <<"H", "a", "w", "a", "i", "i">>],
     [abbr |-> <<"I", "D">>, name |-> <<"I", "d", "a", "h", "o">>],
     [abbr |-> <<"I", "L">>, name |-> <<"I", "l", "l", "i", "n", "o", "i", "s">>],
     [abbr |-> <<"I", "N">>, name |-> <<"I", "n", "d", "i", "a", "n", "a">>],
     [abbr |-> <<"I", "A">>, name |-> <<"I", "o", "w", "a">>],
     [abbr |-> <<"K", "S">>, name |-> <<"K", "a", "n", "s", "a", "s">>],
     [abbr |-> <<"K", "Y">>, name |-> <<"K", "e", "n", "t", "u", "c", "k", "y">>],
     [abbr |-> <<"L", "A">>, name |-> <<"L", "o", "u", "i", "s", "i", "a", "n", "a">>],
     [abbr |-> <<"M", "E">>, name |-> <<"M", "a", "i", "n", "e">>],
     [abbr |-> <<"M", "D">>, name |-> <<"M", "a", "r", "y", "l", "a", "n", "d">>],
     [abbr |-> <<"M", "A">>, name |-> <<"M", "a", "s", "s", "a", "c", "h", "u", "s", "e", "t", "t", "s">>],
     [abbr |-> <<"M", "I">>, name |-> <<"M", "i", "c", "h", "i", "g", "a", "n">>],
     [abbr |-> <<"M", "N">>, name |-> <<"M", "i", "n", "n", "e", "s", "o", "t", "a">>],
     [abbr |-> <<"M", "S">>, name |-> <<"M", "i", "s", "s", "i", "s", "s", "i", "p", "p", "i">>],
     [abbr |-> <<"M", "O">>, name |-> <<"M", "i", "s", "s", "o", "u", "r", "i">>],
     [abbr |-> <<"M", "T">>, name |-> <<"M", "o", "n", "t", "a", "n", "a">>],
     [abbr |-> <<"N", "E">>, name |-> <<"N", "e", "b", "r", "a", "s", "k", "a">>],
     [abbr |-> <<"N", "V">>, name |-> <<"N", "e", "v", "a", "d", "a">>],
     [abbr |-> <<"N", "H">>, name |-> <<"N", "e", "w", " ", "H", "a", "m", "p", "s", "h", "i", "r", "e">>],
     [abbr |-> <<"N", "J">>, name |-> <<"N", "e", "w", " ", "J", "e", "r", "s", "e", "y">>],
     [abbr |-> <<"N", "M">>, name |-> <<"N", "e", "w", " ", "M", "e", "x", "i", "c", "o">>],
     [abbr |-> <<"N", "Y">>, name |-> <<"N", "e", "w", " ", "Y", "o", "r", "k">>],
     [abbr |-> <<"N", "C">>, name |-> <<"N", "o", "r", "t", "h", " ", "C", "a", "r", "o", "l", "i", "n", "a">>],
     [abbr |-> <<"N", "D">>, name |-> <<"N", "o", "r", "t", "h", " ", "D", "a", "k", "o", "t", "a">>],
     [abbr |-> <<"O", "H">>, name |-> <<"O", "h", "i", "o">>],
     [abbr |-> <<"O", "K">>, name |-> <<"O", "k", "l", "a", "h", "o", "m", "a">>],
     [abbr |-> <<"O", "R">>, name |-> <<"O", "r", "e", "g", "o", "n">>],
     [abbr |-> <<"P", "A">>, name |-> <<"P", "e", "n", "n", "s", "y", "l", "v", "a", "n", "i", "a">>],
     [abbr |-> <<"R", "I">>, name |-> <<"R", "h", "o", "d", "e", " ", "I", "s", "l", "a", "n", "d">>],
     [abbr |-> <<"S", "C">>, name |-> <<"S", "o", "u", "t", "h", " ", "C", "a", "r", "o", "l", "i", "n", "a">>],
     [abbr |-> <<"S", "D">>, name |-> <<"S", "o", "u", "t", "h", " ", "D", "a", "k", "o", "t", "a">>],
     [abbr |-> <<"T", "N">>, name |-> <<"T", "e", "n", "n", "e", "s", "s", "e", "e">>],
     [abbr |-> <<"T", "X">>, name |-> <<"T", "e", "x", "a", "s">>],
     [abbr |-> <<"U", "T">>, name |-> <<"U", "t", "a", "h">>],
     [abbr |-> <<"V", "T">>, name |-> <<"V", "e", "r", "m", "o", "n", "t">>],
     [abbr |-> <<"V", "A">>, name |-> <<"V", "i", "r", "g", "i", "n", "i", "a">>],
     [abbr |-> <<"W", "A">>, name |-> <<"W", "a", "s", "h", "i", "n", "g", "t", "o", "n">>],
     [abbr |-> <<"W", "V">>, name |-> <<"W", "e", "s", "t", " ", "V", "i", "r", "g", "i", "n", "i", "a">>],
     [abbr |-> <<"W", "I">>, name |-> <<"W", "i", "s", "c", "o", "n", "s", "i", "n">>],
     [abbr |-> <<"W", "Y">>, name |-> <<"W", "y", "o", "m", "i", "n", "g">>],
     [abbr |-> <<"D", "C">>, name |-> <<"D", "i", "s", "t", "r", "i", "c", "t", " ", "o", "f", " ", "C", "o", "l", "u", "m", "b", "i", "a">>] >>

CITY_NORMALIZATIONS ==
  << [key |-> <<"n", "y", "c">>, value |-> <<"N", "e", "w", " ", "Y", "o", "r", "k">>],
     [key |-> <<"n", "y">>, value |-> <<"N", "e", "w", " ", "Y", "o", "r", "k">>],
     [key |-> <<"l", "a">>, value |-> <<"L", "o", "s", " ", "A", "n", "g", "e", "l", "e", "s">>],
     [key |-> <<"s", "f">>, value |-> <<"S", "a", "n", " ", "F", "r", "a", "n", "c", "i", "s", "c", "o">>],
     [key |-> <<"d", "c">>, value |-> <<"W", "a", "s", "h", "i", "n", "g", "t", "o", "n">>],
     [key |-> <<"p", "h", "i", "l", "l", "y">>, value |-> <<"P", "h", "i", "l", "a", "d", "e", "l", "p", "h", "i", "a">>],
     [key |-> <<"v", "e", "g", "a", "s">>, value |-> <<"L", "a", "s", " ", "V", "e", "g", "a", "s">>],
     [key |-> <<"n", "o", "l", "a">>, value |-> <<"N", "e", "w", " ", "O", "r", "l", "e", "a", "n", "s">>],
     [key |-> <<"c", "h", "i">>, value |-> <<"C", "h", "i", "c", "a", "g", "o">>],
     [key |-> <<"a", "t", "l">>, value |-> <<"A", "t", "l", "a", "n", "t", "a">>],
     [key |-> <<"d", "a", "l", "l", "a", "s", "-", "f", "o", "r", "t", " ", "w", "o", "r", "t", "h">>, value |-> <<"D", "a", "l", "l", "a", "s">>],
     [key |-> <<"d", "f", "w">>, value |-> <<"D", "a", "l", "l", "a", "s">>] >>

HasKey(table, field, k) == \E i \in DOMAIN table : table[i][field] = k

Lookup(table, field, k) == table[CHOOSE i \in DOMAIN table : table[i][field] = k]

\* STATE_ABBREVS: Object.fromEntries of STATE_NAMES, [name.toUpperCase(), abbr]
STATE_ABBREVS ==
  << [key |-> <<"A", "L", "A", "B", "A", "M", "A">>, value |-> <<"A", "L">>],
     [key |-> <<"A", "L", "A", "S", "K", "A">>, value |-> <<"A", "K">>],
     [key |-> <<"A", "R", "I", "Z", "O", "N", "A">>, value |-> <<"A", "Z">>],
     [key |-> <<"A", "R", "K", "A", "N", "S", "A", "S">>, value |-> <<"A", "R">>],
     [key |-> <<"C", "A", "L", "I", "F", "O", "R", "N", "I", "A">>, value |-> <<"C", "A">>],
     [key |-> <<"C", "O", "L", "O", "R", "A", "D", "O">>, value |-> <<"C", "O">>],
     [key |-> <<"C", "O", "N", "N", "E", "C", "T", "I", "C", "U", "T">>, value |-> <<"C", "T">>],
     [key |-> <<"D", "E", "L", "A", "W", "A", "R", "E">>, value |-> <<"D", "E">>],
     [key |-> <<"F", "L", "O", "R", "I", "D", "A">>, value |-> <<"F", "L">>],
     [key |-> <<"G", "E", "O", "R", "G", "I", "A">>, value |-> <<"G", "A">>],
     [key |-> <<"H", "A", "W", "A", "I", "I">>, value |-> <<"H", "I">>],
     [key |-> <<"I", "D", "A", "H", "O">>, value |-> <<"I", "D">>],
     [key |-> <<"I", "L", "L", "I", "N", "O", "I", "S">>, value |-> <<"I", "L">>],
     [key |-> <<"I", "N", "D", "I", "A", "N", "A">>, value |-> <<"I", "N">>],
     [key |-> <<"I", "O", "W", "A">>, value |-> <<"I", "A">>],
     [key |-> <<"K", "A", "N", "S", "A", "S">>, value |-> <<"K", "S">>],
     [key |-> <<"K", "E", "N", "T", "U", "C", "K", "Y">>, value |-> <<"K", "Y">>],
     [key |-> <<"L", "O", "U", "I", "S", "I", "A", "N", "A">>, value |-> <<"L", "A">>],
     [key |-> <<"M", "A", "I", "N", "E">>, value |-> <<"M", "E">>],
     [key |-> <<"M", "A", "R", "Y", "L", "A", "N", "D">>, value |-> <<"M", "D">>],
     [key |-> <<"M", "A", "S", "S", "A", "C", "H", "U", "S", "E", "T", "T", "S">>, value |-> <<"M", "A">>],
     [key |-> <<"M", "I", "C", "H", "I", "G", "A", "N">>, value |-> <<"M", "I">>],
     [key |-> <<"M", "I", "N", "N", "E", "S", "O", "T", "A">>, value |-> <<"M", "N">>],
     [key |-> <<"M", "I", "S", "S", "I", "S", "S", "I", "P", "P", "I">>, value |-> <<"M", "S">>],
     [key |-> <<"M", "I", "S", "S", "O", "U", "R", "I">>, value |-> <<"M", "O">>],
     [key |-> <<"M", "O", "N", "T", "A", "N", "A">>, value |-> <<"M", "T">>],
     [key |-> <<"N", "E", "B", "R", "A", "S", "K", "A">>, value |-> <<"N", "E">>],
     [key |-> <<"N", "E", "V", "A", "D", "A">>, value |-> <<"N", "V">>],
     [key |-> <<"N", "E", "W", " ", "H", "A", "M", "P", "S", "H", "I", "R", "E">>, value |-> <<"N", "H">>],
     [key |-> <<"N", "E", "W", " ", "J", "E", "R", "S", "E", "Y">>, value |-> <<"N", "J">>],
     [key |-> <<"N", "E", "W", " ", "M", "E", "X", "I", "C", "O">>, value |-> <<"N", "M">>],
     [key |-> <<"N", "E", "W", " ", "Y", "O", "R", "K">>, value |-> <<"N", "Y">>],
     [key |-> <<"N", "O", "R", "T", "H", " ", "C", "A", "R", "O", "L", "I", "N", "A">>, value |-> <<"N", "C">>],
     [key |-> <<"N", "O", "R", "T", "H", " ", "D", "A", "K", "O", "T", "A">>, value |-> <<"N", "D">>],
     [key |-> <<"O", "H", "I", "O">>, value |-> <<"O", "H">>],
     [key |-> <<"O", "K", "L", "A", "H", "O", "M", "A">>, value |-> <<"O", "K">>],
     [key |-> <<"O", "R", "E", "G", "O", "N">>, value |-> <<"O", "R">>],
     [key |-> <<"P", "E", "N", "N", "S", "Y", "L", "V", "A", "N", "I", "A">>, value |-> <<"P", "A">>],
     [key |-> <<"R", "H", "O", "D", "E", " ", "I", "S", "L", "A", "N", "D">>, value |-> <<"R", "I">>],
     [key |-> <<"S", "O", "U", "T", "H", " ", "C", "A", "R", "O", "L", "I", "N", "A">>, value |-> <<"S", "C">>],
     [key |-> <<"S", "O", "U", "T", "H", " ", "D", "A", "K", "O", "T", "A">>, value |-> <<"S", "D">>],
     [key |-> <<"T", "E", "N", "N", "E", "S", "S", "E", "E">>, value |-> <<"T", "N">>],
     [key |-> <<"T", "E", "X", "A", "S">>, value |-> <<"T", "X">>],
     [key |-> <<"U", "T", "A", "H">>, value |-> <<"U", "T">>],
     [key |-> <<"V", "E", "R", "M", "O", "N", "T">>, value |-> <<"V", "T">>],
     [key |-> <<"V", "I", "R", "G", "I", "N", "I", "A">>, value |-> <<"V", "A">>],
     [key |-> <<"W", "A", "S", "H", "I", "N", "G", "T", "O", "N">>, value |-> <<"W", "A">>],
     [key |-> <<"W", "E", "S", "T", " ", "V", "I", "R", "G", "I", "N", "I", "A">>, value |-> <<"W", "V">>],
     [key |-> <<"W", "I", "S", "C", "O", "N", "S", "I", "N">>, value |-> <<"W", "I">>],
     [key |-> <<"W", "Y", "O", "M", "I", "N", "G">>, value |-> <<"W", "Y">>],
     [key |-> <<"D", "I", "S", "T", "R", "I", "C", "T", " ", "O", "F", " ", "C", "O", "L", "U", "M", "B", "I", "A">>, value |-> <<"D", "C">>] >>

\* .replace(/\s+/g, ' ')
collapseWhiteSpace(s) ==
  LET marked == [i \in 1..Len(s) |->
                   [ch   |-> IF s[i] \in WhiteSpace THEN " " ELSE s[i],
                    keep |-> s[i] \notin WhiteSpace \/ i = 1 \/ s[i - 1] \notin WhiteSpace]]
      kept   == SelectSeq(marked, LAMBDA m : m.keep)
  IN  [n \in 1..Len(kept) |-> kept[n].ch]

properCase(word) ==
  IF word = Empty THEN Empty
  ELSE <<UpperChar(word[1])>> \o toLowerCase(Tail(word))

normalizeCityNoTrim(city) ==
  LET lowerCity == toLowerCase(city)
  IN  IF HasKey(CITY_NORMALIZATIONS, "key", lowerCity)
      THEN Lookup(CITY_NORMALIZATIONS, "key", lowerCity).value
      ELSE LET words == split(trim(city), " ")
           IN  collapseWhiteSpace(join([i \in DOMAIN words |-> properCase(words[i])], <<" ">>))

normalizeCity(city) ==
  LET lowerCity == trim(toLowerCase(city))
  IN  IF HasKey(CITY_NORMALIZATIONS, "key", lowerCity)
      THEN Lookup(CITY_NORMALIZATIONS, "key", lowerCity).value
      ELSE LET words == split(trim(city), " ")
           IN  collapseWhiteSpace(join([i \in DOMAIN words |-> properCase(words[i])], <<" ">>))

normalizeStateUncut(state) ==
  LET upperState == trim(toUpperCase(state))
  IN  IF HasKey(STATE_NAMES, "abbr", upperState) THEN upperState
      ELSE IF HasKey(STATE_ABBREVS, "key", upperState)
      THEN Lookup(STATE_ABBREVS, "key", upperState).value
      ELSE upperState

normalizeState(state) ==
  LET upperState == trim(toUpperCase(state))
  IN  IF HasKey(STATE_NAMES, "abbr", upperState) THEN upperState
      ELSE IF HasKey(STATE_ABBREVS, "key", upperState)
      THEN Lookup(STATE_ABBREVS, "key", upperState).value
      ELSE substring(upperState, 0, 2)

\* ------------------------------------------------------------------------
\* server/scraper.ts: priority scorer
\* ------------------------------------------------------------------------
HIGH_PRIORITY_KEYWORDS ==
  << <<"t", "a", "x">>,
     <<"c", "a", "p", "t", "i", "v", "e">>,
     <<"r", "e", "i", "n", "s", "u", "r", "a", "n", "c", "e">>,
     <<"8", "3", "1", "(", "b", ")">>,
     <<"8", "3", "1", "b">>,
     <<"h", "i", "g", "h", " ", "n", "e", "t", " ", "w", "o", "r", "t", "h">>,
     <<"h", "n", "w">>,
     <<"u", "h", "n", "w">>,
     <<"u", "l", "t", "r", "a", " ", "h", "i", "g", "h">>,
     <<"b", "u", "s", "i", "n", "e", "s", "s", " ", "o", "w", "n", "e", "r">>,
     <<"e", "n", "t", "r", "e", "p", "r", "e", "n", "e", "u", "r">>,
     <<"s", "u", "c", "c", "e", "s", "s", "i", "o", "n">>,
     <<"e", "s", "t", "a", "t", "e", " ", "p", "l", "a", "n", "n", "i", "n", "g">>,
     <<"w", "e", "a", "l", "t", "h", " ", "p", "r", "e", "s", "e", "r", "v", "a", "t", "i", "o", "n">>,
     <<"t", "a", "x", " ", "o", "p", "t", "i", "m", "i", "z", "a", "t", "i", "o", "n">>,
     <<"s", "t", "r", "a", "t", "e", "g", "i", "c">>,
     <<"p", "r", "o", "a", "c", "t", "i", "v", "e">>,
     <<"a", "d", "v", "a", "n", "c", "e", "d", " ", "t", "a", "x">>,
     <<"c", "p", "a">>,
     <<"c", "e", "r", "t", "i", "f", "i", "e", "d", " ", "p", "u", "b", "l", "i", "c", " ", "a", "c", "c", "o", "u", "n", "t", "a", "n", "t">>,
     <<"t", "a", "x", " ", "p", "l", "a", "n", "n", "i", "n", "g">> >>

MEDIUM_PRIORITY_KEYWORDS ==
  << <<"a", "c", "c", "o", "u", "n", "t", "i", "n", "g">>,
     <<"f", "i", "n", "a", "n", "c", "i", "a", "l", " ", "p", "l", "a", "n", "n", "i", "n", "g">>,
     <<"w", "e", "a", "l", "t", "h", " ", "m", "a", "n", "a", "g", "e", "m", "e", "n", "t">>,
     <<"i", "n", "v", "e", "s", "t", "m", "e", "n", "t">>,
     <<"r", "e", "t", "i", "r", "e", "m", "e", "n", "t">>,
     <<"e", "x", "e", "c", "u", "t", "i", "v", "e">>,
     <<"c", "o", "r", "p", "o", "r", "a", "t", "e">>,
     <<"c", "f", "p">>,
     <<"f", "i", "d", "u", "c", "i", "a", "r", "y">>,
     <<"f", "e", "e", "-", "o", "n", "l", "y">> >>

\* [..].filter(Boolean).join(' ').toLowerCase()
searchTextOf(advisor) ==
  toLowerCase(join(SelectSeq(<<advisor.name, advisor.firmName, advisor.bio, advisor.designation>>
                             \o advisor.specialties,
                             LAMBDA t : t # Empty),
                   <<" ">>))

\* for (const keyword of keywords) if (searchText.includes(keyword)) sum += points
RECURSIVE keywordPoints(_, _, _, _)
keywordPoints(searchText, keywords, i, points) ==
  IF i > Len(keywords) THEN 0
  ELSE (IF includes(searchText, keywords[i]) THEN points ELSE 0)
       + keywordPoints(searchText, keywords, i + 1, points)

\* the CPA bonus decided by the designation alone
calculatePriorityScoreDesignationOnly(advisor) ==
  LET searchText  == searchTextOf(advisor)
      highScore   == keywordPoints(searchText, HIGH_PRIORITY_KEYWORDS, 1, 10)
      mediumScore == keywordPoints(searchText, MEDIUM_PRIORITY_KEYWORDS, 1, 5)
      cpaBonus    == IF includes(advisor.designation, <<"C", "P", "A">>) THEN 15 ELSE 0
      specBonus   == IF Len(advisor.specialties) > 0 THEN 10 ELSE 0
  IN  Min(Min(highScore, 50) + Min(mediumScore, 25) + cpaBonus + specBonus, 100)

calculatePriorityScore(advisor) ==
  LET searchText  == searchTextOf(advisor)
      highScore   == keywordPoints(searchText, HIGH_PRIORITY_KEYWORDS, 1, 10)
      mediumScore == keywordPoints(searchText, MEDIUM_PRIORITY_KEYWORDS, 1, 5)
      cpaBonus    == IF includes(searchText, <<"c", "p", "a">>) \/ includes(advisor.designation, <<"C", "P", "A">>)
                     THEN 15 ELSE 0
      specBonus   == IF Len(advisor.specialties) > 0 THEN 10 ELSE 0
  IN  Min(Min(highScore, 50) + Min(mediumScore, 25) + cpaBonus + specBonus, 100)

\* ------------------------------------------------------------------------
\* server/scraper.ts: sortByPriority
\* ------------------------------------------------------------------------
withPriorityScore(advisor) ==
  [f \in DOMAIN advisor \cup {"priorityScore"} |->
     IF f = "priorityScore" THEN calculatePriorityScore(advisor) ELSE advisor[f]]

\* Array.prototype.sort with comparator b.priorityScore - a.priorityScore:
\* a stable sort, an element goes behind every element that does not
\* compare after it
\* ties resolved the other way round
insertByScoreBeforeEqual(sorted, x) ==
  LET n == Cardinality({p \in 1..Len(sorted) : sorted[p].priorityScore > x.priorityScore})
  IN  SubSeq(sorted, 1, n) \o <<x>> \o SubSeq(sorted, n + 1, Len(sorted))

insertByScore(sorted, x) ==
  LET n == Cardinality({p \in 1..Len(sorted) : sorted[p].priorityScore >= x.priorityScore})
  IN  SubSeq(sorted, 1, n) \o <<x>> \o SubSeq(sorted, n + 1, Len(sorted))

RECURSIVE sortDescending(_)
sortDescending(s) ==
  IF s = << >> THEN << >>
  ELSE insertByScore(sortDescending(SubSeq(s, 1, Len(s) - 1)), s[Len(s)])

sortByPriority(list) ==
  sortDescending([n \in DOMAIN list |-> withPriorityScore(list[n])])

\* ------------------------------------------------------------------------
\* server/ai-rewriter.ts
\* ------------------------------------------------------------------------
MAX_RETRIES == 3

RETRY_DELAY_MS == 2000

\* the same delay before every retry
retryDelayConstant(attempt) == RETRY_DELAY_MS

\* const delay = RETRY_DELAY_MS * attempt
retryDelay(attempt) == RETRY_DELAY_MS * attempt

\* What one performRewrite attempt can come to: the request is rejected,
\* the first content block is not text, the text is not JSON, or a result
AiFailures == {"requestFailed", "unexpectedType", "parseFailed"}

AiOutcomes == {"ok"} \cup AiFailures

\* the object parsed out of a well-formed answer of the model
AiResult ==
  [bio |-> <<"(bio written by the model)">>,
   specialties |-> <<<<"T", "a", "x", " ", "P", "l", "a", "n", "n", "i", "n", "g">>, <<"C", "a", "p", "t", "i", "v", "e", " ", "I", "n", "s", "u", "r", "a", "n", "c", "e">>>>]

locationOf(city, state) == city \o <<",", " ">> \o state

\* a template that does not name the designation
generateFallbackBioNoDesignation(advisorName, designation, location, firmName) ==
  [bio |-> advisorName \o <<" is a distinguished financial professional based in ">>
           \o location \o <<".">>,
   specialties |-> <<<<"T", "a", "x", " ", "P", "l", "a", "n", "n", "i", "n", "g">>, <<"W", "e", "a", "l", "t", "h", " ", "M", "a", "n", "a", "g", "e", "m", "e", "n", "t">>, <<"R", "i", "s", "k", " ", "M", "a", "n", "a", "g", "e", "m", "e", "n", "t">>>>]

generateFallbackBio(advisorName, designation, location, firmName) ==
  LET firm == IF firmName # Empty THEN <<" ", "a", "t", " ">> \o firmName ELSE Empty
  IN  [bio |-> advisorName \o <<" is a distinguished ">> \o designation \o firm
               \o <<" based in ">> \o location
               \o <<". With a focus on strategic wealth and tax planning, ">>
               \o advisorName
               \o <<" helps clients navigate complex financial decisions and optimize their tax positions. Specializing in innovative risk management solutions including captive insurance and reinsurance strategies, ">>
               \o advisorName
               \o <<" delivers comprehensive financial guidance tailored to each client's unique situation.">>,
       specialties |-> <<<<"T", "a", "x", " ", "P", "l", "a", "n", "n", "i", "n", "g">>, <<"W", "e", "a", "l", "t", "h", " ", "M", "a", "n", "a", "g", "e", "m", "e", "n", "t">>, <<"R", "i", "s", "k", " ", "M", "a", "n", "a", "g", "e", "m", "e", "n", "t">>>>]

\* ------------------------------------------------------------------------
\* Inputs: what the listing pages hold, what the API is sent
\* ------------------------------------------------------------------------
ScrapedAdvisor(name, firmName, designation, city, state, bio, specialties) ==
  [name |-> name, firmName |-> firmName, designation |-> designation,
   city |-> city, state |-> state, zipCode |-> <<"0", "0", "0", "0", "0">>,
   websiteUrl |-> Empty, bio |-> bio, specialties |-> specialties]

JaneDoe ==
  ScrapedAdvisor(<<"J", "a", "n", "e", " ", "D", "o", "e">>, Empty, <<"C", "P", "A">>, <<"D", "u", "l", "u", "t", "h">>, <<"G", "A">>, Empty, <<<<"T", "a", "x", " ", "P", "l", "a", "n", "n", "i", "n", "g">>>>)

\* another card that yields the slug of JaneDoe
JaneDoe2 ==
  ScrapedAdvisor(<<"J", "a", "n", "e", "-", "D", "o", "e">>, <<"D", "o", "e", " ", "C", "o">>, <<"C", "P", "A">>, <<"d", "u", "l", "u", "t", "h">>, <<"G", "A">>, Empty, <<<<"T", "a", "x", " ", "P", "l", "a", "n", "n", "i", "n", "g">>>>)

AlRoe ==
  ScrapedAdvisor(<<"A", "l", " ", "R", "o", "e">>, Empty, <<"W", "e", "a", "l", "t", "h", " ", "M", "a", "n", "a", "g", "e", "r">>, <<"a", "t", "l">>, <<"G", "e", "o", "r", "g", "i", "a">>, Empty, << >>)

BoLi ==
  ScrapedAdvisor(<<"B", "o", " ", "L", "i">>, Empty, <<"W", "e", "a", "l", "t", "h", " ", "M", "a", "n", "a", "g", "e", "r">>, <<"D", "u", "l", "u", "t", "h">>, <<"G", "A">>, Empty,
                 <<<<"F", "i", "n", "a", "n", "c", "i", "a", "l", " ", "P", "l", "a", "n", "n", "i", "n", "g">>, <<"W", "e", "a", "l", "t", "h", " ", "M", "a", "n", "a", "g", "e", "m", "e", "n", "t">>>>)

CyNg ==
  ScrapedAdvisor(<<"C", "y", " ", "N", "g">>, Empty, <<"W", "e", "a", "l", "t", "h", " ", "M", "a", "n", "a", "g", "e", "r">>, <<"D", "u", "l", "u", "t", "h">>, <<"G", "A">>, Empty,
                 <<<<"F", "i", "n", "a", "n", "c", "i", "a", "l", " ", "P", "l", "a", "n", "n", "i", "n", "g">>, <<"W", "e", "a", "l", "t", "h", " ", "M", "a", "n", "a", "g", "e", "m", "e", "n", "t">>>>)

\* the advisor lists a listing page can parse to
Pages ==
  << <<AlRoe, JaneDoe, JaneDoe2>>,
     <<BoLi, JaneDoe, CyNg>>,
     << >> >>

\* the longest list a page parses to
MaxCands == CHOOSE n \in 0..100 : /\ \A p \in DOMAIN Pages : Len(Pages[p]) <= n
                                   /\ \E q \in DOMAIN Pages : Len(Pages[q]) = n

\* ------------------------------------------------------------------------
\* RegExp as server/scraper.ts uses it. A pattern is a sequence of nodes:
\* a character class with its quantifier, a capture boundary, the end of
\* input, an alternation, or a group under `*`. regexMatch is the
\* backtracking match at one position: a quantifier tries its counts from
\* the greedy (or lazy) end, an alternation its branches from the left. The
\* result is the positions of the capture boundaries met, in order, then
\* the position after the match.
\* ------------------------------------------------------------------------
NoMatch == <<0>>

\* characters outside ASCII, one element of a text each
RegisteredSign == "(R)"

TradeMarkSign == "(TM)"

LineTerminators == {"\n", "\r"}

\* \s
SpaceChars == {" ", "\t", "\n", "\r"}

Cls(set, min, max) == [t |-> "cls", in |-> set, neg |-> FALSE, min |-> min, max |-> max, lazy |-> FALSE]

NotCls(set, min, max) == [t |-> "cls", in |-> set, neg |-> TRUE, min |-> min, max |-> max, lazy |-> FALSE]

\* x+? over a negated class
LazySomeNot(set) == [t |-> "cls", in |-> set, neg |-> TRUE, min |-> 1, max |-> -1, lazy |-> TRUE]

\* x* and x+ (max -1: no upper limit), x?
Many(set) == Cls(set, 0, -1)

Some(set) == Cls(set, 1, -1)

ManyNot(set) == NotCls(set, 0, -1)

SomeNot(set) == NotCls(set, 1, -1)

Opt(set) == Cls(set, 0, 1)

Mark == [t |-> "mark"]

EndOfInput == [t |-> "end"]

Alt(alts) == [t |-> "alt", alts |-> alts]

Star(body) == [t |-> "star", body |-> body]

\* a literal text; under the i flag each letter stands for both cases
Lit(text) == <<[t |-> "lit", text |-> text]>>

LitI(text) == [n \in 1..Len(text) |-> Cls({LowerChar(text[n]), UpperChar(text[n])}, 1, 1)]

\* how many characters from pos on are in the class of the node
runLength(node, s, pos) ==
  LET stop == CHOOSE q \in pos..(Len(s) + 1) :
                /\ q = Len(s) + 1 \/ (s[q] \in node.in) = node.neg
                /\ \A p \in pos..(q - 1) : (s[p] \in node.in) # node.neg
  IN  IF node.max < 0 THEN stop - pos ELSE Min(node.max, stop - pos)

\* Each attempt is evaluated once: its result r is bound over a one-element
\* set and the outcome picked from the one-element set of outcomes.
RECURSIVE regexMatch(_, _, _), tryCounts(_, _, _, _, _), tryBranches(_, _, _, _, _)
regexMatch(nodes, s, pos) ==
  IF nodes = << >> THEN <<pos>>
  ELSE
    LET node == Head(nodes)
        rest == Tail(nodes)
    IN  CASE node.t = "mark" ->
               CHOOSE x \in { IF r = NoMatch THEN NoMatch ELSE <<pos>> \o r :
                              r \in {regexMatch(rest, s, pos)} } : TRUE
          [] node.t = "end" ->
               IF pos = Len(s) + 1 THEN regexMatch(rest, s, pos) ELSE NoMatch
          [] node.t = "lit" ->
               IF pos + Len(node.text) - 1 <= Len(s)
                    /\ SubSeq(s, pos, pos + Len(node.text) - 1) = node.text
               THEN regexMatch(rest, s, pos + Len(node.text))
               ELSE NoMatch
          [] node.t = "cls" ->
               CHOOSE x \in { IF run < node.min THEN NoMatch
                              ELSE IF node.lazy THEN tryCounts(nodes, s, pos, node.min, run)
                              ELSE CHOOSE y \in { IF r # NoMatch THEN r
                                                  ELSE tryCounts(nodes, s, pos, node.min, run - 1) :
                                                  r \in {regexMatch(rest, s, pos + run)} } : TRUE :
                              run \in {runLength(node, s, pos)} } : TRUE
          [] node.t = "alt" -> tryBranches(node.alts, rest, s, pos, 1)
          [] node.t = "star" ->
               CHOOSE x \in { IF r # NoMatch THEN r ELSE regexMatch(rest, s, pos) :
                              r \in {regexMatch(node.body \o nodes, s, pos)} } : TRUE

\* a quantified class taking one of the counts lo..hi, then the rest: the
\* first count that lets the rest match, from hi down when greedy and from
\* lo up when lazy. The range is searched by halves, the preferred half first.
tryCounts(nodes, s, pos, lo, hi) ==
  IF lo > hi THEN NoMatch
  ELSE IF lo = hi THEN regexMatch(Tail(nodes), s, pos + lo)
  ELSE IF Head(nodes).lazy
  THEN CHOOSE x \in { IF r # NoMatch THEN r
                      ELSE tryCounts(nodes, s, pos, ((lo + hi) \div 2) + 1, hi) :
                      r \in {tryCounts(nodes, s, pos, lo, (lo + hi) \div 2)} } : TRUE
  ELSE CHOOSE x \in { IF r # NoMatch THEN r
                      ELSE tryCounts(nodes, s, pos, lo, (lo + hi) \div 2) :
                      r \in {tryCounts(nodes, s, pos, ((lo + hi) \div 2) + 1, hi)} } : TRUE

\* branch a of an alternation, then the rest; on failure the next branch
tryBranches(alts, rest, s, pos, a) ==
  IF a > Len(alts) THEN NoMatch
  ELSE CHOOSE x \in { IF r # NoMatch THEN r ELSE tryBranches(alts, rest, s, pos, a + 1) :
                      r \in {regexMatch(alts[a] \o rest, s, pos)} } : TRUE

\* RegExp.prototype.exec from lastIndex (0-based) on: <<start>> \o the
\* result of the match at the first position that has one, or NoMatch
exec(nodes, s, lastIndex) ==
  LET starts == { p \in (lastIndex + 1)..(Len(s) + 1) : regexMatch(nodes, s, p) # NoMatch }
  IN  IF starts = {} THEN NoMatch
      ELSE CHOOSE x \in { <<p>> \o regexMatch(nodes, s, p) :
                          p \in {CHOOSE p \in starts : \A q \in starts : p <= q} } : TRUE

\* the matches of a /g pattern in the order the exec loop meets them: the
\* next exec starts where the match ended
RECURSIVE execAll(_, _, _)
execAll(nodes, s, lastIndex) ==
  CHOOSE x \in { IF found = NoMatch THEN << >>
                 ELSE <<found>> \o execAll(nodes, s, found[Len(found)] - 1) :
                 found \in {exec(nodes, s, lastIndex)} } : TRUE

\* capture group n of a match: the text between its two boundaries
group(found, s, n) == SubSeq(s, found[2 * n], found[2 * n + 1] - 1)

\* ------------------------------------------------------------------------
\* server/scraper.ts: the listing page parsers
\* ------------------------------------------------------------------------
\* /\[!\[Headshot of ([^\]]+)\][^\]]*\]\([^)]+\)!\[[^\]]*\]\([^)]+\)
\*  \\*\n*\\*\n*([^\\]+)\\*\n*\\*\n*([^,]+),\s*([A-Z]{2})/g
cardPattern ==
  Lit(<<"[", "!", "[", "H", "e", "a", "d", "s", "h", "o", "t", " ", "o", "f", " ">>) \o <<Mark, SomeNot({"]"}), Mark>> \o Lit(<<"]">>)
    \o <<ManyNot({"]"})>> \o Lit(<<"]", "(">>) \o <<SomeNot({")"})>> \o Lit(<<")", "!", "[">>)
    \o <<ManyNot({"]"})>> \o Lit(<<"]", "(">>) \o <<SomeNot({")"})>> \o Lit(<<")">>)
    \o <<Many({"\\"}), Many({"\n"}), Many({"\\"}), Many({"\n"}),
         Mark, SomeNot({"\\"}), Mark,
         Many({"\\"}), Many({"\n"}), Many({"\\"}), Many({"\n"}),
         Mark, SomeNot({","}), Mark>>
    \o Lit(<<",">>) \o <<Many(SpaceChars), Mark, Cls(UpperLetters, 2, 2), Mark>>

\* /,?\s*(CFP®?|CPA|MBA|CFA|ChFC|RICP|CEPA|AEP®?|CRPC®?|BFA™?|EA).*$/i
credentialsPattern ==
  <<Opt({","}), Many(SpaceChars),
    Alt(<<LitI(<<"C", "F", "P">>) \o <<Opt({RegisteredSign})>>,
          LitI(<<"C", "P", "A">>), LitI(<<"M", "B", "A">>), LitI(<<"C", "F", "A">>), LitI(<<"C", "h", "F", "C">>), LitI(<<"R", "I", "C", "P">>),
          LitI(<<"C", "E", "P", "A">>),
          LitI(<<"A", "E", "P">>) \o <<Opt({RegisteredSign})>>,
          LitI(<<"C", "R", "P", "C">>) \o <<Opt({RegisteredSign})>>,
          LitI(<<"B", "F", "A">>) \o <<Opt({TradeMarkSign})>>,
          LitI(<<"E", "A">>)>>),
    ManyNot(LineTerminators), EndOfInput>>

\* s.replace(pattern, '') for a pattern without the g flag
removeFirst(nodes, s) ==
  LET found == exec(nodes, s, 0)
  IN  IF found = NoMatch THEN s
      ELSE SubSeq(s, 1, found[1] - 1) \o SubSeq(s, found[Len(found)], Len(s))

\* the designation both Wealthtender parsers read from the credentials
designationOf(nameLower) ==
  IF includes(nameLower, <<"c", "p", "a">>)
  THEN IF includes(nameLower, <<"c", "f", "p">>) THEN <<"C", "P", "A", " ", "&", " ", "W", "e", "a", "l", "t", "h", " ", "M", "a", "n", "a", "g", "e", "r">> ELSE <<"C", "P", "A">>
  ELSE <<"W", "e", "a", "l", "t", "h", " ", "M", "a", "n", "a", "g", "e", "r">>

\* the specialties pushed for the credentials in the name, in order
credentialSpecialties(nameLower, table) ==
  LET hits == SelectSeq(table, LAMBDA e : includes(nameLower, e.key))
  IN  [n \in 1..Len(hits) |-> hits[n].value]

CardSpecialties ==
  << [key |-> <<"c", "p", "a">>, value |-> <<"T", "a", "x", " ", "P", "l", "a", "n", "n", "i", "n", "g">>],
     [key |-> <<"c", "f", "p">>, value |-> <<"F", "i", "n", "a", "n", "c", "i", "a", "l", " ", "P", "l", "a", "n", "n", "i", "n", "g">>],
     [key |-> <<"c", "e", "p", "a">>, value |-> <<"E", "x", "i", "t", " ", "P", "l", "a", "n", "n", "i", "n", "g">>],
     [key |-> <<"r", "i", "c", "p">>, value |-> <<"R", "e", "t", "i", "r", "e", "m", "e", "n", "t", " ", "P", "l", "a", "n", "n", "i", "n", "g">>],
     [key |-> <<"c", "f", "a">>, value |-> <<"I", "n", "v", "e", "s", "t", "m", "e", "n", "t", " ", "M", "a", "n", "a", "g", "e", "m", "e", "n", "t">>] >>

AlternativeSpecialties == CardSpecialties \o << [key |-> <<"m", "b", "a">>, value |-> <<"B", "u", "s", "i", "n", "e", "s", "s", " ", "S", "t", "r", "a", "t", "e", "g", "y">>] >>

DefaultSpecialties == <<<<"F", "i", "n", "a", "n", "c", "i", "a", "l", " ", "P", "l", "a", "n", "n", "i", "n", "g">>, <<"W", "e", "a", "l", "t", "h", " ", "M", "a", "n", "a", "g", "e", "m", "e", "n", "t">>>>

\* nameBlock.split(/[\n\\]+/).filter(l => l.trim().length > 0): the block
\* holds no backslash, and the empty pieces that splitting at every newline
\* adds are filtered out
blockLines(nameBlock) == SelectSeq(split(nameBlock, "\n"), LAMBDA l : trim(l) # Empty)

\* the record parseWealthtenderAdvisors pushes for one card
cardAdvisor(name, nameBlock, city, state) ==
  LET nameLower   == toLowerCase(name)
      specialties == credentialSpecialties(nameLower, CardSpecialties)
      lines       == blockLines(nameBlock)
      firmName    == IF Len(lines) >= 2 THEN trim(lines[2]) ELSE Empty
      bio         == IF Len(lines) >= 2
                     THEN trim(join(SubSeq(lines, 3, Len(lines)), <<" ">>))
                     ELSE Empty
      stripped    == trim(removeFirst(credentialsPattern, name))
  IN  ScrapedAdvisor(
        IF stripped # Empty THEN stripped ELSE name,
        firmName,
        designationOf(nameLower),
        normalizeCity(city),
        normalizeState(state),
        IF bio # Empty THEN bio
        ELSE name \o <<" ", "i", "s", " ", "a", " ", "f", "i", "n", "a", "n", "c", "i", "a", "l", " ", "p", "r", "o", "f", "e", "s", "s", "i", "o", "n", "a", "l", " ", "b", "a", "s", "e", "d", " ", "i", "n", " ">> \o city \o <<",", " ">>
               \o state \o <<".">>,
        IF specialties # << >> THEN specialties ELSE DefaultSpecialties)

\* the while loop of parseWealthtenderAdvisors over the matches of cardPattern
RECURSIVE cardLoop(_, _, _, _, _)
cardLoop(matches, content, limit, advisors, seenNames) ==
  IF matches = << >> \/ Len(advisors) >= limit THEN advisors
  ELSE LET match     == Head(matches)
           headshot  == trim(group(match, content, 1))
           nameBlock == trim(group(match, content, 2))
           city      == trim(group(match, content, 3))
           state     == trim(group(match, content, 4))
           name      == headshot
       IN  IF name \in seenNames
           THEN cardLoop(Tail(matches), content, limit, advisors, seenNames)
           ELSE cardLoop(Tail(matches), content, limit,
                         Append(advisors, cardAdvisor(name, nameBlock, city, state)),
                         seenNames \cup {name})

\* /\[Headshot of ([^\]]+)\]/g
namePattern == Lit(<<"[", "H", "e", "a", "d", "s", "h", "o", "t", " ", "o", "f", " ">>) \o <<Mark, SomeNot({"]"}), Mark>> \o Lit(<<"]">>)

\* /([A-Z][a-z]+(?:\s+[A-Z][a-z.]+)*),\s*([A-Z]{2})(?:\s*\\|\s*\n|$)/g
locationPattern ==
  <<Mark, Cls(UpperLetters, 1, 1), Some(LowerLetters),
    Star(<<Some(SpaceChars), Cls(UpperLetters, 1, 1), Some(LowerLetters \cup {"."})>>),
    Mark>>
    \o Lit(<<",">>)
    \o <<Many(SpaceChars), Mark, Cls(UpperLetters, 2, 2), Mark,
         Alt(<< <<Many(SpaceChars)>> \o Lit(<<"\\">>),
                <<Many(SpaceChars)>> \o Lit(<<"\n">>),
                <<EndOfInput>> >>)>>

\* the first loop of parseWealthtenderAlternative: the names kept
RECURSIVE nameLoop(_, _, _, _)
nameLoop(matches, content, names, seenNames) ==
  IF matches = << >> THEN names
  ELSE LET name == trim(group(Head(matches), content, 1))
       IN  IF name \notin seenNames /\ Len(name) > 3
           THEN nameLoop(Tail(matches), content, Append(names, name), seenNames \cup {name})
           ELSE nameLoop(Tail(matches), content, names, seenNames)

\* the second loop: the locations kept
locationsOf(content) ==
  LET matches == execAll(locationPattern, content, 0)
      all     == [n \in 1..Len(matches) |->
                    [city  |-> trim(group(matches[n], content, 1)),
                     state |-> trim(group(matches[n], content, 2))]]
  IN  SelectSeq(all, LAMBDA l : Len(l.city) > 2 /\ Len(l.city) < 30
                                  /\ HasKey(STATE_NAMES, "abbr", l.state))

DefaultLocation == [city |-> <<"N", "e", "w", " ", "Y", "o", "r", "k">>, state |-> <<"N", "Y">>]

\* locations[i] || locations[i % Math.max(locations.length, 1)] || default,
\* for the 0-based i
locationAt(locations, i) ==
  IF i + 1 <= Len(locations) THEN locations[i + 1]
  ELSE IF locations # << >> THEN locations[(i % Len(locations)) + 1]
  ELSE DefaultLocation

parseWealthtenderAlternative(content, limit) ==
  LET names     == nameLoop(execAll(namePattern, content, 0), content, << >>, {})
      locations == locationsOf(content)
  IN  [n \in 1..Min(Len(names), limit) |->
         LET name        == names[n]
             location    == locationAt(locations, n - 1)
             nameLower   == toLowerCase(name)
             specialties == credentialSpecialties(nameLower, AlternativeSpecialties)
         IN  ScrapedAdvisor(name, Empty, designationOf(nameLower),
                            normalizeCity(location.city), normalizeState(location.state),
                            Empty,
                            IF specialties # << >> THEN specialties ELSE DefaultSpecialties)]

parseWealthtenderAdvisors(content, limit) ==
  LET advisors == cardLoop(execAll(cardPattern, content, 0), content, limit, << >>, {})
  IN  IF advisors = << >> THEN parseWealthtenderAlternative(content, limit) ELSE advisors

\* /!\[([^\|]+)\s*\|\s*([^\]]+)\]\([^)]+\)\s*\n\n([^\n]+?)(?:\n|$)/g
advisorPattern ==
  Lit(<<"!", "[">>) \o <<Mark, SomeNot({"|"}), Mark, Many(SpaceChars)>> \o Lit(<<"|">>)
    \o <<Many(SpaceChars), Mark, SomeNot({"]"}), Mark>> \o Lit(<<"]", "(">>)
    \o <<SomeNot({")"})>> \o Lit(<<")">>) \o <<Many(SpaceChars)>> \o Lit(<<"\n", "\n">>)
    \o <<Mark, LazySomeNot({"\n"}), Mark, Alt(<<Lit(<<"\n">>), <<EndOfInput>>>>)>>

startsWith(s, prefix) == Len(s) >= Len(prefix) /\ SubSeq(s, 1, Len(prefix)) = prefix

\* the display names parseSamslistAdvisors passes over
isBoilerplate(displayName) ==
  \/ \E token \in {<<"H", "o", "m", "e">>, <<"C", "o", "n", "t", "a", "c", "t">>, <<"V", "i", "e", "w", " ", "M", "o", "r", "e">>, <<"P", "r", "o", "f", "e", "s", "s", "i", "o", "n", "a", "l", " ", "S", "e", "r", "v", "i", "c", "e", "s">>,
                   <<"H", "e", "l", "p", " ", "G", "u", "i", "d", "e", "s">>, <<"C", "h", "o", "o", "s", "e", " ", "S", "p", "e", "c", "i", "a", "l", "t", "i", "e", "s">>} : includes(displayName, token)
  \/ Len(displayName) < 3
  \/ startsWith(displayName, <<"#">>)
  \/ startsWith(displayName, <<"!">>)

samslistDesignation(specialtiesLower) ==
  IF includes(specialtiesLower, <<"t", "a", "x">>)
       /\ (includes(specialtiesLower, <<"w", "e", "a", "l", "t", "h">>) \/ includes(specialtiesLower, <<"f", "i", "n", "a", "n", "c", "i", "a", "l">>))
  THEN <<"C", "P", "A", " ", "&", " ", "W", "e", "a", "l", "t", "h", " ", "M", "a", "n", "a", "g", "e", "r">>
  ELSE IF includes(specialtiesLower, <<"t", "a", "x">>) \/ includes(specialtiesLower, <<"a", "c", "c", "o", "u", "n", "t", "i", "n", "g">>)
  THEN <<"C", "P", "A">>
  ELSE <<"W", "e", "a", "l", "t", "h", " ", "M", "a", "n", "a", "g", "e", "r">>

\* specialtiesStr.split(',').map(s => s.trim()).filter(s => s.length > 0)
specialtiesList(specialtiesStr) ==
  LET parts == split(specialtiesStr, ",")
  IN  SelectSeq([n \in 1..Len(parts) |-> trim(parts[n])], LAMBDA p : p # Empty)

\* the while loop of parseSamslistAdvisors over the matches of advisorPattern
RECURSIVE samslistLoop(_, _, _, _)
samslistLoop(matches, content, limit, advisors) ==
  IF matches = << >> \/ Len(advisors) >= limit THEN advisors
  ELSE LET match          == Head(matches)
           specialtiesStr == trim(group(match, content, 2))
           displayName    == trim(group(match, content, 3))
           specialties    == specialtiesList(specialtiesStr)
           name           == displayName
       IN  IF isBoilerplate(displayName) \/ \E n \in DOMAIN advisors : advisors[n].name = name
           THEN samslistLoop(Tail(matches), content, limit, advisors)
           ELSE samslistLoop(Tail(matches), content, limit,
                  Append(advisors,
                    [ScrapedAdvisor(name, Empty, samslistDesignation(toLowerCase(specialtiesStr)),
                                    <<"N", "e", "w", " ", "Y", "o", "r", "k">>, <<"N", "Y">>, Empty,
                                    SubSeq(specialties, 1, Min(5, Len(specialties))))
                       EXCEPT !.zipCode = <<"1", "0", "0", "0", "1">>]))

parseSamslistAdvisors(content, limit) ==
  samslistLoop(execAll(advisorPattern, content, 0), content, limit, << >>)

\* the records of the while loop of parseWealthtenderAdvisors alone
primaryCards(content, limit) ==
  cardLoop(execAll(cardPattern, content, 0), content, limit, << >>, {})

\* detectSource(url)
detectSource(url) ==
  IF includes(url, <<"w", "e", "a", "l", "t", "h", "t", "e", "n", "d", "e", "r", ".", "c", "o", "m">>) THEN "wealthtender"
  ELSE IF includes(url, <<"s", "a", "m", "s", "l", "i", "s", "t", ".", "c", "o">>) THEN "samslist"
  ELSE "unknown"

\* the patterns the parser chosen for the source runs over the content
patternsApplied(source, content, limit) ==
  IF source = "samslist" THEN <<"advisorPattern">>
  ELSE IF primaryCards(content, limit) = << >>
  THEN <<"cardPattern", "namePattern", "locationPattern">>
  ELSE <<"cardPattern">>

\* scrapeAdvisorsFromListingPage(url, limit) for what firecrawl.scrape does:
\* it throws, or returns a result whose markdown may be missing (Empty)
scrapeAdvisorsFromListingPage(url, fetched, limit) ==
  IF fetched.throws
  THEN [success |-> FALSE, advisors |-> << >>, error |-> <<"S", "c", "r", "a", "p", "e", " ", "e", "r", "r", "o", "r", ":", " ">> \o fetched.error,
        patterns |-> << >>]
  ELSE IF fetched.markdown = Empty
  THEN [success |-> FALSE, advisors |-> << >>,
        error |-> <<"N", "o", " ", "c", "o", "n", "t", "e", "n", "t", " ", "r", "e", "t", "u", "r", "n", "e", "d", " ", "f", "r", "o", "m", " ", "F", "i", "r", "e", "c", "r", "a", "w", "l">>, patterns |-> << >>]
  ELSE LET source == detectSource(url)
       IN  [success  |-> TRUE,
            advisors |-> IF source = "samslist"
                         THEN parseSamslistAdvisors(fetched.markdown, limit)
                         ELSE parseWealthtenderAdvisors(fetched.markdown, limit),
            error    |-> Empty,
            patterns |-> patternsApplied(source, fetched.markdown, limit)]

\* ------------------------------------------------------------------------
\* What a listing page can hold
\* ------------------------------------------------------------------------
\* the card format the comment above parseWealthtenderAdvisors gives:
\* headshot, logo, name block, location, profile link
DocumentedCard ==
  <<"[", "!", "[", "H", "e", "a", "d", "s", "h", "o", "t", " ", "o", "f", " ", "J", "a", "n",
    "e", " ", "D", "o", "e", ",", " ", "C", "P", "A", "]", "(", "h", ")", "!", "[", "l", "o",
    "g", "o", "]", "(", "l", ")", "\\", "\n", "\\", "\n", "J", "a", "n", "e", " ", "D", "o",
    "e", ",", " ", "C", "P", "A", "\n", "D", "o", "e", " ", "C", "o", "\n", "T", "a", "x", " ",
    "h", "e", "l", "p", "\\", "\n", "\\", "\n", "D", "u", "l", "u", "t", "h", ",", " ", "G",
    "A", "\\", "\n", "]", "(", "p", ")">>

\* the same card with one more image after the logo
ThreeImageCard ==
  <<"[", "!", "[", "H", "e", "a", "d", "s", "h", "o", "t", " ", "o", "f", " ", "J", "a", "n",
    "e", " ", "D", "o", "e", ",", " ", "C", "P", "A", "]", "(", "h", ")", "!", "[", "l", "o",
    "g", "o", "]", "(", "l", ")", "!", "[", "b", "a", "d", "g", "e", "]", "(", "b", ")", "\\",
    "\n", "\\", "\n", "J", "a", "n", "e", " ", "D", "o", "e", ",", " ", "C", "P", "A", "\n",
    "D", "o", "e", " ", "C", "o", "\n", "T", "a", "x", " ", "h", "e", "l", "p", "\\", "\n",
    "\\", "\n", "D", "u", "l", "u", "t", "h", ",", " ", "G", "A", "\\", "\n", "]", "(", "p",
    ")">>

\* a card of another person of the same name with other credentials
SecondCard ==
  <<"[", "!", "[", "H", "e", "a", "d", "s", "h", "o", "t", " ", "o", "f", " ", "J", "a", "n",
    "e", " ", "D", "o", "e", ",", " ", "C", "F", "P", "]", "(", "h", ")", "!", "[", "l", "o",
    "g", "o", "]", "(", "l", ")", "!", "[", "b", "a", "d", "g", "e", "]", "(", "b", ")", "\\",
    "\n", "\\", "\n", "J", "a", "n", "e", " ", "D", "o", "e", ",", " ", "C", "F", "P", "\n",
    "D", "o", "e", " ", "C", "o", "\n", "T", "a", "x", " ", "h", "e", "l", "p", "\\", "\n",
    "\\", "\n", "A", "t", "l", "a", "n", "t", "a", ",", " ", "G", "A", "\\", "\n", "]", "(",
    "q", ")">>

\* a listing page without cards
NoResults == <<"N", "o", " ", "r", "e", "s", "u", "l", "t", "s">>

WealthtenderContents ==
  { DocumentedCard,
    ThreeImageCard,
    ThreeImageCard \o <<"\n", "\n">> \o SecondCard,
    ThreeImageCard \o <<"\n", "\n">> \o ThreeImageCard,
    DocumentedCard \o <<"\n", "\n">> \o DocumentedCard,
    NoResults }

SamslistListing ==
  <<"!", "[", "A", "l", " ", "R", "o", "e", " ", "|", " ", "T", "a", "x", ",", " ", "W", "e",
    "a", "l", "t", "h", "]", "(", "i", ")", "\n", "\n", "A", "l", " ", "R", "o", "e", "\n",
    "!", "[", "H", "o", "m", "e", " ", "|", " ", "T", "a", "x", "]", "(", "i", ")", "\n", "\n",
    "H", "o", "m", "e", "\n", "!", "[", "A", "l", " ", "R", "o", "e", " ", "|", " ", "T", "a",
    "x", "]", "(", "i", ")", "\n", "\n", "A", "l", " ", "R", "o", "e", "\n", "!", "[", "B",
    "o", " ", "L", "i", " ", "|", " ", "E", "s", "t", "a", "t", "e", "]", "(", "i", ")", "\n",
    "\n", "B", "o", " ", "L", "i">>

SamslistContents == { SamslistListing, NoResults }

\* the contents that hold the one card of Jane Doe, CPA of Duluth, GA
JaneDoeContents == { DocumentedCard, ThreeImageCard }

\* scripts/run-scraper.ts: the limit per page when none is given
DEFAULT_LIMIT == 20

Credentials == {"DATABASE_URL", "FIRECRAWL_API_KEY", "ANTHROPIC_API_KEY"}

ApiBodies ==
  { [name |-> <<"J", "a", "n", "e", " ", "D", "o", "e">>, designation |-> <<"C", "P", "A">>, city |-> <<"D", "u", "l", "u", "t", "h">>, state |-> <<"G", "A">>,
     zipCode |-> <<"3", "0", "0", "9", "6">>, websiteUrl |-> Empty, bio |-> Empty, firmName |-> Empty,
     specialties |-> <<<<"T", "a", "x", " ", "P", "l", "a", "n", "n", "i", "n", "g">>>>, slug |-> Empty],
    [name |-> <<"A", "l", " ", "R", "o", "e">>, designation |-> <<"W", "e", "a", "l", "t", "h", " ", "M", "a", "n", "a", "g", "e", "r">>, city |-> <<"A", "t", "l", "a", "n", "t", "a">>, state |-> <<"G", "e", "o", "r", "g", "i", "a">>,
     zipCode |-> <<"3", "0", "3", "0", "1">>, websiteUrl |-> Empty, bio |-> Empty, firmName |-> Empty,
     specialties |-> << >>, slug |-> Empty] }

\* ------------------------------------------------------------------------
\* State
\* ------------------------------------------------------------------------
VARIABLES
  env,                 \* process.env of the scraper script: the credentials set
  pages,               \* what each source URL's page parses to when it is fetched
  run,                 \* which run of the script this is
  pc,                  \* where the script is
  i,                   \* runScraperPipeline: index of the source (1-based)
  scraped,             \* scrapeResult.advisors
  j,                   \* position of the early duplicate check in scraped
  newAdvisors,
  prioritizedAdvisors,
  k,                   \* position of the processing loop in prioritizedAdvisors
  attempt,             \* rewriteBioForSEO: attempt
  lastError,           \* rewriteBioForSEO: lastError
  rewrittenData,       \* processAndInsertAdvisor: rewrittenData
  attemptResult,       \* how the latest performRewrite call ended
  aiTrace,             \* what rewriteBioForSEO did for the candidate in hand
  totalSuccess, totalSkipped, totalErrors, totalScraped,
  db,                  \* the advisors table, in insertion order
  dbFailures,          \* storage operations that failed so far
  apiPosts,            \* POST /api/advisors requests served so far
  apiStatus,           \* status of the last API response (0: none yet)
  apiReq,              \* the last API request served: its route and what it met
  leads,               \* the leads table, in insertion order
  blogPosts,           \* the blog_posts table, in insertion order
  pendingLead,         \* POST /api/leads requests between their two storage calls
  vehicles,            \* dealer app: the vehicles table, by id
  transactions,        \* dealer app: the transactions table, in insertion order
  buyCodes,            \* dealer app: the buy_codes table, by code
  inflight,            \* dealer app: requests waiting for a storage call
  dealerStarted,       \* dealer app: requests received so far
  dealerReq,           \* dealer app: the last request answered
  offers,              \* dealer app: the offers table, by id
  offerActivities,     \* dealer app: the offer_activities table, in insertion order
  purchased,           \* dealer app: per buy code, the verify-code requests that
                       \* were answered with a purchase
  requests,            \* kinds of external request this run of the script has made
  visited,             \* sources scraped successfully in this run
  outcome,             \* per candidate <<source, position>>: what this run did with it
  prevAdded,           \* candidates added by an earlier run
  processed,           \* <<source, position, priorityScore>> of the candidates given to
                       \* processAndInsertAdvisor in this run, in order
  fnCall               \* last direct application of a pure helper

pipelineVars ==
  <<env, pages, run, pc, i, scraped, j, newAdvisors, prioritizedAdvisors, k,
    attempt, lastError, rewrittenData, attemptResult, aiTrace,
    totalSuccess, totalSkipped, totalErrors, totalScraped,
    db, dbFailures, apiPosts, apiStatus, apiReq, requests, visited, outcome, prevAdded,
    processed>>

hubVars == <<leads, blogPosts, pendingLead>>

offerVars == <<offers, offerActivities>>

dealerVars ==
  <<vehicles, transactions, buyCodes, inflight, dealerStarted, dealerReq, offerVars, purchased>>

serverVars == <<hubVars, dealerVars>>

vars == <<pipelineVars, fnCall, serverVars>>

Sources == 1..MaxPages

Candidates == Sources \X (1..MaxCands)

\* status: the total the candidate went to; slugExisted: a duplicate check
\* was answered while a row with the candidate's slug was in the table;
\* rewriter: rewriteBioForSEO was invoked for it; aiExhausted: every attempt
\* failed; insert: how its db.insert ended
NoOutcome ==
  [status |-> "none", slugExisted |-> FALSE, rewriter |-> FALSE,
   aiExhausted |-> FALSE, insert |-> "none"]

NoData == [bio |-> Empty, specialties |-> << >>]

NoCall == [fn |-> "none", args |-> << >>, text |-> Empty, number |-> 0, list |-> << >>]

\* ------------------------------------------------------------------------
\* Storage (shared/schema.ts: advisors, unique slug) and duplicate checks
\* ------------------------------------------------------------------------
Slugs(table) == {table[n].slug : n \in DOMAIN table}

\* advisor.specialties?.[0] || advisor.designation
primaryOf(advisor) ==
  IF advisor.specialties # << >> /\ advisor.specialties[1] # Empty
  THEN advisor.specialties[1]
  ELSE advisor.designation

slugOf(advisor) ==
  generateAdvisorSlug(advisor.name, normalizeCity(advisor.city), primaryOf(advisor))

checkDuplicateBySlug(table, name, city, specialty) ==
  LET normalizedCity == normalizeCity(city)
      slug == generateAdvisorSlug(name, normalizedCity, specialty)
  IN  \E n \in DOMAIN table : table[n].slug = slug

\* the slug condition left out of the query
checkDuplicateUrlOnly(table, websiteUrl, slug) ==
  /\ websiteUrl # Empty
  /\ \E n \in DOMAIN table : table[n].websiteUrl = websiteUrl

checkDuplicate(table, websiteUrl, slug) ==
  IF websiteUrl = Empty /\ slug = Empty THEN FALSE
  ELSE \E n \in DOMAIN table :
         \/ websiteUrl # Empty /\ table[n].websiteUrl = websiteUrl
         \/ slug # Empty /\ table[n].slug = slug

\* [...new Set([...scraped, ...rewritten])].slice(0, 6)
RECURSIVE unique(_)
unique(s) ==
  IF s = << >> THEN << >>
  ELSE LET front == unique(SubSeq(s, 1, Len(s) - 1))
       IN  IF s[Len(s)] \in Range(front) THEN front ELSE Append(front, s[Len(s)])

finalSpecialtiesOfRewrittenFirst(scrapedSpecialties, rewrittenSpecialties) ==
  SubSeq(unique(rewrittenSpecialties \o scrapedSpecialties), 1,
         Min(6, Len(unique(rewrittenSpecialties \o scrapedSpecialties))))

finalSpecialtiesOf(scrapedSpecialties, rewrittenSpecialties) ==
  SubSeq(unique(scrapedSpecialties \o rewrittenSpecialties), 1,
         Min(6, Len(unique(scrapedSpecialties \o rewrittenSpecialties))))

\* the row keyed by a slug derived from the city as scraped
advisorRowRawCity(table, advisor, data, slug) ==
  [id |-> Len(table) + 1,
   name |-> advisor.name, firmName |-> advisor.firmName,
   designation |-> advisor.designation,
   city |-> normalizeCity(advisor.city), state |-> normalizeState(advisor.state),
   zipCode |-> advisor.zipCode, websiteUrl |-> advisor.websiteUrl,
   bio |-> data.bio,
   specialties |-> finalSpecialtiesOf(advisor.specialties, data.specialties),
   isVerifiedStrategist |-> FALSE,
   slug |-> generateAdvisorSlug(advisor.name, advisor.city, primaryOf(advisor))]

advisorRow(table, advisor, data, slug) ==
  [id |-> Len(table) + 1,
   name |-> advisor.name, firmName |-> advisor.firmName,
   designation |-> advisor.designation,
   city |-> normalizeCity(advisor.city), state |-> normalizeState(advisor.state),
   zipCode |-> advisor.zipCode, websiteUrl |-> advisor.websiteUrl,
   bio |-> data.bio,
   specialties |-> finalSpecialtiesOf(advisor.specialties, data.specialties),
   isVerifiedStrategist |-> FALSE, slug |-> slug]

\* results of processAndInsertAdvisor
DuplicateResult ==
  [success |-> FALSE, error |-> <<"D", "u", "p", "l", "i", "c", "a", "t", "e", " ", "a", "d", "v", "i", "s", "o", "r", " ", "(", "w", "e", "b", "s", "i", "t", "e", " ", "o", "r", " ", "s", "l", "u", "g", " ", "a", "l", "r", "e", "a", "d", "y", " ", "e", "x", "i", "s", "t", "s", ")">>]

InsertErrorResult(error) == [success |-> FALSE, error |-> <<"I", "n", "s", "e", "r", "t", " ", "e", "r", "r", "o", "r", ":", " ">> \o error]

SuccessResult == [success |-> TRUE, error |-> Empty]

\* what the database driver's errors print as
UniqueViolation ==
  <<"N", "e", "o", "n", "D", "b", "E", "r", "r", "o", "r", ":", " ", "d", "u", "p", "l", "i", "c", "a", "t", "e", " ", "k", "e", "y", " ", "v", "a", "l", "u", "e", " ", "v", "i", "o", "l", "a", "t", "e", "s", " ", "u", "n", "i", "q", "u", "e", " ", "c", "o", "n", "s", "t", "r", "a", "i", "n", "t", " ", "\"", "a", "d", "v", "i", "s", "o", "r", "s", "_", "s", "l", "u", "g", "_", "u", "n", "i", "q", "u", "e", "\"">>

QueryFailed == <<"E", "r", "r", "o", "r", ":", " ", "f", "e", "t", "c", "h", " ", "f", "a", "i", "l", "e", "d">>

\* runScraperPipeline: which total an insertResult goes to
totalOfErrorsDropped(insertResult) ==
  IF insertResult.success THEN "success"
  ELSE IF includes(insertResult.error, <<"D", "u", "p", "l", "i", "c", "a", "t", "e">>) THEN "skipped"
  ELSE "none"

totalOf(insertResult) ==
  IF insertResult.success THEN "success"
  ELSE IF includes(insertResult.error, <<"D", "u", "p", "l", "i", "c", "a", "t", "e">>) THEN "skipped"
  ELSE "error"

\* ------------------------------------------------------------------------
\* Init
\* ------------------------------------------------------------------------
\* dealer app: the vehicles listed when the server starts
VehicleIds == {1, 2}

NoDealerRequest ==
  [route |-> "none", status |-> 0, moved |-> FALSE, cancelledAll |-> FALSE,
   flipped |-> {}, listed |-> {}]

\* no API request served yet
NoRequest == [route |-> "none", found |-> FALSE, valid |-> FALSE, changed |-> FALSE]

\* dealer app: the offers made before the server starts; `due` says that
\* expiresAt has passed
OffersAtStart ==
  [o \in {1, 2, 3} |->
     [vehicleId |-> IF o = 3 THEN 2 ELSE 1, dealerId |-> 1,
      status |-> IF o = 1 THEN "countered" ELSE "pending",
      due |-> o # 3]]

\* the tables of the server as the scraper script finds them
ServerStart ==
  /\ leads = << >>
  /\ blogPosts = << >>
  /\ pendingLead = {}
  /\ vehicles = [v \in VehicleIds |-> [status |-> "active", inQueue |-> TRUE]]
  /\ transactions = << >>
  /\ buyCodes = [c \in {"DEALER1"} |-> [id |-> 1, dealerId |-> 1, active |-> TRUE, usageCount |-> 0]]
  /\ inflight = {}
  /\ dealerStarted = 0
  /\ dealerReq = NoDealerRequest
  /\ offers = OffersAtStart
  /\ offerActivities = << >>
  /\ purchased = [c \in DOMAIN buyCodes |-> 0]

Init ==
  /\ env \in SUBSET Credentials
  /\ \E first \in DOMAIN Pages :
       pages = [s \in Sources |-> Pages[((first + s - 2) % Len(Pages)) + 1]]
  /\ run = 1
  /\ pc = "import"
  /\ i = 1 /\ j = 1 /\ k = 1
  /\ scraped = << >> /\ newAdvisors = << >> /\ prioritizedAdvisors = << >>
  /\ attempt = 1 /\ lastError = "none" /\ rewrittenData = NoData
  /\ attemptResult = "none" /\ aiTrace = << >>
  /\ totalSuccess = 0 /\ totalSkipped = 0 /\ totalErrors = 0 /\ totalScraped = 0
  /\ db = << >> /\ dbFailures = 0
  /\ apiPosts = 0 /\ apiStatus = 0 /\ apiReq = NoRequest
  /\ ServerStart
  /\ requests = {} /\ visited = {}
  /\ outcome = [c \in Candidates |-> NoOutcome]
  /\ prevAdded = {}
  /\ processed = << >>
  /\ fnCall = NoCall

loopVars == <<scraped, j, newAdvisors, prioritizedAdvisors, k>>

rewriteVars == <<attempt, lastError, rewrittenData, attemptResult, aiTrace>>

totals == <<totalSuccess, totalSkipped, totalErrors, totalScraped>>

apiVars == <<apiPosts, apiStatus, apiReq>>

\* ------------------------------------------------------------------------
\* scripts/run-scraper.ts
\* ------------------------------------------------------------------------
\* Module evaluation: scraper.ts throws without DATABASE_URL; the Firecrawl
\* and Anthropic client constructors may or may not reject a missing key.
ImportModules ==
  /\ pc = "import"
  /\ IF "DATABASE_URL" \notin env
     THEN pc' = "exitConfig"
     ELSE \/ pc' = "main"
          \/ /\ {"FIRECRAWL_API_KEY", "ANTHROPIC_API_KEY"} \ env # {}
             /\ pc' = "exitConfig"
  /\ UNCHANGED <<env, pages, run, i, loopVars, rewriteVars, totals, db, dbFailures,
                 apiVars, requests, visited, outcome, prevAdded, processed, fnCall, serverVars>>

\* main() without its check of the AI key
requiredEnvNoAiKey == {"DATABASE_URL", "FIRECRAWL_API_KEY"}

\* the credentials main() insists on before it calls the pipeline
requiredEnv == {"DATABASE_URL", "FIRECRAWL_API_KEY", "ANTHROPIC_API_KEY"}

\* main(): validate the environment, then enter runScraperPipeline
MainValidate ==
  /\ pc = "main"
  /\ IF requiredEnv \subseteq env THEN pc' = "scrape" ELSE pc' = "exitConfig"
  /\ i' = 1
  /\ totalSuccess' = 0 /\ totalSkipped' = 0 /\ totalErrors' = 0 /\ totalScraped' = 0
  /\ UNCHANGED <<env, pages, run, loopVars, rewriteVars, db, dbFailures,
                 apiVars, requests, visited, outcome, prevAdded, processed, fnCall, serverVars>>

\* the script is run again (same environment, same source content)
StartNextRun ==
  /\ pc \in {"done", "exitFailed"}
  /\ run < MaxRuns
  /\ run' = run + 1
  /\ pc' = "import"
  /\ i' = 1 /\ j' = 1 /\ k' = 1
  /\ scraped' = << >> /\ newAdvisors' = << >> /\ prioritizedAdvisors' = << >>
  /\ attempt' = 1 /\ lastError' = "none" /\ rewrittenData' = NoData
  /\ attemptResult' = "none" /\ aiTrace' = << >>
  /\ totalSuccess' = 0 /\ totalSkipped' = 0 /\ totalErrors' = 0 /\ totalScraped' = 0
  /\ requests' = {} /\ visited' = {}
  /\ prevAdded' = prevAdded \cup {c \in Candidates : outcome[c].status = "success"}
  /\ outcome' = [c \in Candidates |-> NoOutcome]
  /\ processed' = << >>
  /\ UNCHANGED <<env, pages, db, dbFailures, apiVars, fnCall, serverVars>>

\* ------------------------------------------------------------------------
\* server/scraper.ts: runScraperPipeline and what it awaits
\* ------------------------------------------------------------------------
\* `continue` in the loop over urls, or its end: next source or the summary
NextSourceSame ==
  i' = i /\ pc' = "scrape"

NextSource ==
  IF i < MaxPages THEN i' = i + 1 /\ pc' = "scrape" ELSE i' = i /\ pc' = "done"

\* end of a source's work: the delay between sources is taken only when
\* another source follows
EndOfSource ==
  /\ i' = i
  /\ IF i < MaxPages THEN pc' = "delay3000" ELSE pc' = "done"

withIdx(list) ==
  [n \in DOMAIN list |->
     [f \in DOMAIN list[n] \cup {"idx"} |-> IF f = "idx" THEN n ELSE list[n][f]]]

\* scrapeAdvisorsFromListingPage(pageUrl, limitPerPage) and the two
\* early `continue`s
Scrape ==
  /\ pc = "scrape"
  /\ requests' = requests \cup {"scrape"}
  /\ \/ \* the fetch throws or returns no content: success = false
        /\ NextSource
        /\ UNCHANGED <<loopVars, totalScraped, visited>>
     \/ \* the page is fetched and parsed
        /\ visited' = visited \cup {i}
        /\ IF pages[i] = << >>
           THEN /\ NextSource
                /\ UNCHANGED <<loopVars, totalScraped>>
           ELSE /\ scraped' = withIdx(pages[i])
                /\ totalScraped' = totalScraped + Len(pages[i])
                /\ newAdvisors' = << >>
                /\ j' = 1
                /\ i' = i
                /\ pc' = "earlyCheck"
                /\ UNCHANGED <<prioritizedAdvisors, k>>
  /\ UNCHANGED <<env, pages, run, rewriteVars, totalSuccess, totalSkipped, totalErrors,
                 db, dbFailures, apiVars, outcome, prevAdded, processed, fnCall, serverVars>>

\* one turn of the early duplicate check loop; after the last one the
\* survivors are sorted. A failing query rejects runScraperPipeline, and
\* main()'s catch ends the process.
EarlyCheck ==
  /\ pc = "earlyCheck"
  /\ requests' = requests \cup {"db"}
  /\ \/ /\ dbFailures < MaxDbFailures
        /\ dbFailures' = dbFailures + 1
        /\ pc' = "exitFailed"
        /\ UNCHANGED <<i, loopVars, totalSkipped, outcome>>
     \/ LET advisor     == scraped[j]
            isDuplicate == checkDuplicateBySlug(db, advisor.name, advisor.city,
                                                primaryOf(advisor))
            survivors   == IF isDuplicate THEN newAdvisors
                           ELSE Append(newAdvisors, advisor)
        IN  /\ dbFailures' = dbFailures
            /\ totalSkipped' = totalSkipped + (IF isDuplicate THEN 1 ELSE 0)
            /\ outcome' = [outcome EXCEPT ![<<i, advisor.idx>>] =
                             [@ EXCEPT !.status = IF isDuplicate THEN "skipped" ELSE @,
                                       !.slugExisted = slugOf(advisor) \in Slugs(db)]]
            /\ newAdvisors' = survivors
            /\ scraped' = scraped
            /\ IF j < Len(scraped)
               THEN /\ j' = j + 1
                    /\ pc' = "earlyCheck"
                    /\ UNCHANGED <<i, prioritizedAdvisors, k>>
               ELSE /\ j' = j
                    /\ IF survivors = << >>
                       THEN /\ EndOfSource
                            /\ UNCHANGED <<prioritizedAdvisors, k>>
                       ELSE /\ prioritizedAdvisors' = sortByPriority(survivors)
                            /\ k' = 1
                            /\ i' = i
                            /\ pc' = "process"
  /\ UNCHANGED <<env, pages, run, rewriteVars, totalSuccess, totalErrors, totalScraped,
                 db, apiVars, visited, prevAdded, processed, fnCall, serverVars>>

\* runScraperPipeline after `await processAndInsertAdvisor(advisor)`:
\* the result goes to one total, then delay(500) is awaited
Tally(insertResult, candidate, existed, inserted) ==
  /\ totalSuccess' = totalSuccess + (IF totalOf(insertResult) = "success" THEN 1 ELSE 0)
  /\ totalSkipped' = totalSkipped + (IF totalOf(insertResult) = "skipped" THEN 1 ELSE 0)
  /\ totalErrors'  = totalErrors  + (IF totalOf(insertResult) = "error" THEN 1 ELSE 0)
  /\ outcome' = [outcome EXCEPT ![candidate] =
                   [@ EXCEPT !.status = totalOf(insertResult),
                             !.slugExisted = existed,
                             !.insert = inserted]]
  /\ pc' = "delay500"

\* processAndInsertAdvisor up to the rewrite: normalise, derive the slug,
\* checkDuplicate; a new candidate enters rewriteBioForSEO
Process ==
  /\ pc = "process"
  /\ requests' = requests \cup {"db"}
  /\ processed' = Append(processed, <<i, prioritizedAdvisors[k].idx,
                                      prioritizedAdvisors[k].priorityScore>>)
  /\ LET advisor   == prioritizedAdvisors[k]
         candidate == <<i, advisor.idx>>
         slug      == generateAdvisorSlug(advisor.name, normalizeCity(advisor.city),
                                          primaryOf(advisor))
     IN  \/ /\ dbFailures < MaxDbFailures
            /\ dbFailures' = dbFailures + 1
            /\ Tally(InsertErrorResult(QueryFailed), candidate, FALSE, "none")
            /\ UNCHANGED rewriteVars
         \/ /\ dbFailures' = dbFailures
            /\ IF checkDuplicate(db, advisor.websiteUrl, slug)
               THEN /\ Tally(DuplicateResult, candidate, slug \in Slugs(db), "none")
                    /\ UNCHANGED rewriteVars
               ELSE /\ outcome' = [outcome EXCEPT ![candidate] =
                                     [@ EXCEPT !.rewriter = TRUE,
                                               !.slugExisted = slug \in Slugs(db)]]
                    /\ attempt' = 1
                    /\ lastError' = "none"
                    /\ attemptResult' = "none"
                    /\ UNCHANGED <<totalSuccess, totalSkipped, totalErrors>>
                    /\ IF "ANTHROPIC_API_KEY" \notin env
                       THEN \* rewriteBioForSEO throws at once; the caller falls back
                            /\ aiTrace' = <<[ev |-> "throw", attempt |-> 0, ms |-> 0,
                                             error |-> "missingKey"]>>
                            /\ rewrittenData' =
                                 generateFallbackBio(advisor.name, advisor.designation,
                                    locationOf(normalizeCity(advisor.city),
                                               normalizeState(advisor.state)),
                                    advisor.firmName)
                            /\ pc' = "insert"
                       ELSE /\ aiTrace' = << >>
                            /\ rewrittenData' = NoData
                            /\ pc' = "ai"
  /\ UNCHANGED <<env, pages, run, i, loopVars, totalScraped, db, apiVars, visited,
                 prevAdded, fnCall, serverVars>>

\* catch (error) { lastError = error }
nextLastError(previous, error) == error

\* one attempt of rewriteBioForSEO's loop: performRewrite returns or throws;
\* after the last failure lastError is thrown and processAndInsertAdvisor
\* substitutes generateFallbackBio
AiCall ==
  /\ pc = "ai"
  /\ requests' = requests \cup {"ai"}
  /\ \E result \in AiOutcomes :
       LET advisor == prioritizedAdvisors[k]
           called  == Append(aiTrace, [ev |-> IF result = "ok" THEN "returned" ELSE "failed",
                                       attempt |-> attempt, ms |-> 0, error |-> "none"])
       IN  /\ attemptResult' = result
           /\ attempt' = attempt
           /\ IF result = "ok"
              THEN /\ aiTrace' = called
                   /\ rewrittenData' = AiResult
                   /\ pc' = "insert"
                   /\ UNCHANGED <<lastError, outcome>>
              ELSE /\ lastError' = nextLastError(lastError, result)
                   /\ IF attempt < MAX_RETRIES
                      THEN /\ aiTrace' = called
                           /\ pc' = "backoff"
                           /\ UNCHANGED <<rewrittenData, outcome>>
                      ELSE /\ aiTrace' = Append(called, [ev |-> "throw", attempt |-> attempt,
                                                         ms |-> 0, error |-> lastError'])
                           /\ rewrittenData' =
                                generateFallbackBio(advisor.name, advisor.designation,
                                   locationOf(normalizeCity(advisor.city),
                                              normalizeState(advisor.state)),
                                   advisor.firmName)
                           /\ outcome' = [outcome EXCEPT ![<<i, advisor.idx>>].aiExhausted = TRUE]
                           /\ pc' = "insert"
  /\ UNCHANGED <<env, pages, run, i, loopVars, totals, db, dbFailures, apiVars, visited,
                 prevAdded, processed, fnCall, serverVars>>

\* await sleep(delay) between two attempts
Backoff ==
  /\ pc = "backoff"
  /\ aiTrace' = Append(aiTrace, [ev |-> "sleep", attempt |-> attempt,
                                 ms |-> retryDelay(attempt), error |-> "none"])
  /\ attempt' = attempt + 1
  /\ pc' = "ai"
  /\ UNCHANGED <<env, pages, run, i, loopVars, lastError, rewrittenData, attemptResult,
                 totals, db,
                 dbFailures, apiVars, requests, visited, outcome, prevAdded, processed, fnCall, serverVars>>

\* db.insert(advisors).values({...}); the unique slug index rejects a
\* second row with the slug; any error becomes an 'Insert error' result
Insert ==
  /\ pc = "insert"
  /\ requests' = requests \cup {"db"}
  /\ LET advisor   == prioritizedAdvisors[k]
         candidate == <<i, advisor.idx>>
         slug      == generateAdvisorSlug(advisor.name, normalizeCity(advisor.city),
                                          primaryOf(advisor))
     IN  \/ /\ dbFailures < MaxDbFailures
            /\ dbFailures' = dbFailures + 1
            /\ db' = db
            /\ Tally(InsertErrorResult(QueryFailed), candidate, outcome[candidate].slugExisted, "failed")
         \/ /\ dbFailures' = dbFailures
            /\ IF slug \in Slugs(db)
               THEN /\ db' = db
                    /\ Tally(InsertErrorResult(UniqueViolation), candidate,
                             outcome[candidate].slugExisted, "collided")
               ELSE /\ db' = Append(db, advisorRow(db, advisor, rewrittenData, slug))
                    /\ Tally(SuccessResult, candidate, outcome[candidate].slugExisted, "stored")
  /\ attempt' = 1 /\ lastError' = "none" /\ rewrittenData' = NoData
  /\ attemptResult' = "none" /\ aiTrace' = << >>
  /\ UNCHANGED <<env, pages, run, i, loopVars, totalScraped, apiVars, visited,
                 prevAdded, processed, fnCall, serverVars>>

\* await delay(500) after a candidate; then the next candidate, or the
\* end of the source
Delay500 ==
  /\ pc = "delay500"
  /\ IF k < Len(prioritizedAdvisors)
     THEN /\ k' = k + 1
          /\ i' = i
          /\ pc' = "process"
     ELSE /\ k' = k
          /\ EndOfSource
  /\ UNCHANGED <<env, pages, run, scraped, j, newAdvisors, prioritizedAdvisors,
                 rewriteVars, totals, db, dbFailures, apiVars, requests, visited,
                 outcome, prevAdded, processed, fnCall, serverVars>>

\* await delay(3000) between two sources
Delay3000 ==
  /\ pc = "delay3000"
  /\ i' = i + 1
  /\ pc' = "scrape"
  /\ UNCHANGED <<env, pages, run, loopVars, rewriteVars, totals, db, dbFailures,
                 apiVars, requests, visited, outcome, prevAdded, processed, fnCall, serverVars>>

\* ------------------------------------------------------------------------
\* server/routes.ts (advisor hub): POST /api/advisors, served by another
\* process over the same table
\* ------------------------------------------------------------------------
Designations == {<<"C", "P", "A">>, <<"W", "e", "a", "l", "t", "h", " ", "M", "a", "n", "a", "g", "e", "r">>, <<"C", "P", "A", " ", "&", " ", "W", "e", "a", "l", "t", "h", " ", "M", "a", "n", "a", "g", "e", "r">>}

\* /^\d{5}(-\d{4})?$/
validZip(z) ==
  \/ Len(z) = 5 /\ \A n \in 1..5 : z[n] \in Digits
  \/ /\ Len(z) = 10
     /\ \A n \in 1..5 : z[n] \in Digits
     /\ z[6] = "-"
     /\ \A n \in 7..10 : z[n] \in Digits

\* insertAdvisorSchema.safeParse(data).success
validAdvisor(data) ==
  /\ Len(data.name) >= 2
  /\ data.designation \in Designations
  /\ Len(data.city) >= 2
  /\ Len(data.state) = 2
  /\ validZip(data.zipCode)
  /\ Len(data.slug) >= 5
  /\ \A n \in 1..Len(data.slug) : IsAlnum(data.slug[n]) \/ data.slug[n] = "-"

apiRow(table, data) ==
  [id |-> Len(table) + 1,
   name |-> data.name, firmName |-> data.firmName, designation |-> data.designation,
   city |-> data.city, state |-> data.state, zipCode |-> data.zipCode,
   websiteUrl |-> data.websiteUrl, bio |-> data.bio, specialties |-> data.specialties,
   isVerifiedStrategist |-> FALSE, slug |-> data.slug]

\* what a served request met: whether the row or slug it names was in
\* storage, whether its body passed validation, whether storage changed
Request(route, found, valid, changed) ==
  [route |-> route, found |-> found, valid |-> valid, changed |-> changed]

ApiCreateAdvisor ==
  /\ apiPosts < MaxApiPosts
  /\ apiPosts' = apiPosts + 1
  /\ \E body \in ApiBodies :
       LET data == IF body.slug = Empty /\ body.name # Empty /\ body.city # Empty
                   THEN [body EXCEPT !.slug =
                           generateAdvisorSlug(body.name, body.city,
                              IF body.specialties # << >> THEN body.specialties[1] ELSE Empty)]
                   ELSE body
       IN  IF ~validAdvisor(data)
           THEN /\ apiStatus' = 400
                /\ apiReq' = Request("POST /api/advisors", data.slug \in Slugs(db), FALSE, FALSE)
                /\ UNCHANGED <<db, dbFailures>>
           ELSE \/ /\ dbFailures < MaxDbFailures
                   /\ dbFailures' = dbFailures + 1
                   /\ apiStatus' = 500
                   /\ apiReq' = Request("POST /api/advisors", data.slug \in Slugs(db), TRUE, FALSE)
                   /\ db' = db
                \/ /\ dbFailures' = dbFailures
                   /\ IF data.slug \in Slugs(db)
                      THEN /\ apiStatus' = 409
                           /\ apiReq' = Request("POST /api/advisors", TRUE, TRUE, FALSE)
                           /\ db' = db
                      ELSE /\ apiStatus' = 201
                           /\ apiReq' = Request("POST /api/advisors", FALSE, TRUE, TRUE)
                           /\ db' = Append(db, apiRow(db, data))
  /\ UNCHANGED <<env, pages, run, pc, i, loopVars, rewriteVars, totals, requests,
                 visited, outcome, prevAdded, processed, fnCall, serverVars>>

\* a text of n characters
Padding(n) == [x \in 1..n |-> "a"]

\* the :id parameter of a request: a uuid naming row n, or a text that is no
\* uuid
AdvisorIds ==
  { [uuid |-> TRUE, n |-> 1], [uuid |-> TRUE, n |-> 2], [uuid |-> TRUE, n |-> 90],
    [uuid |-> FALSE, n |-> 0] }

\* bodies of PATCH /api/advisors/:id (Partial<Advisor>)
PatchBodies ==
  { [slug |-> <<"j", "a", "n", "e", "-", "d", "o", "e", "-", "d", "u", "l", "u", "t", "h", "-", "t", "a", "x", "-", "p", "l", "a", "n", "n", "i", "n", "g">>],
    [state |-> <<"G", "e", "o", "r", "g", "i", "a">>],
    [id |-> 91] }

\* the rule of insertAdvisorSchema for one field
validAdvisorField(field, value) ==
  CASE field = "name" -> Len(value) >= 2
    [] field = "designation" -> value \in Designations
    [] field = "city" -> Len(value) >= 2
    [] field = "state" -> Len(value) = 2
    [] field = "zipCode" -> validZip(value)
    [] field = "slug" -> /\ Len(value) >= 5
                         /\ \A n \in 1..Len(value) : IsAlnum(value[n]) \/ value[n] = "-"
    [] OTHER -> TRUE

validPartialAdvisor(body) == \A f \in DOMAIN body : validAdvisorField(f, body[f])

RowIndex(table, id) == { n \in DOMAIN table : id.uuid /\ table[n].id = id.n }

\* .set({ ...data, updatedAt }) on one row
setFields(row, data) == [f \in DOMAIN row |-> IF f \in DOMAIN data THEN data[f] ELSE row[f]]

UpdateRejectedKeysOnly(table, n, row) ==
  \/ \E o \in DOMAIN table : o # n /\ table[o].id = row.id
  \/ row.id # table[n].id /\ \E l \in DOMAIN leads : leads[l].advisorId = table[n].id

\* the constraints of the advisors table that an update of row n can break:
\* primary key, unique slug, and the leads that reference the row
UpdateRejected(table, n, row) ==
  \/ \E o \in DOMAIN table : o # n /\ table[o].slug = row.slug
  \/ \E o \in DOMAIN table : o # n /\ table[o].id = row.id
  \/ row.id # table[n].id /\ \E l \in DOMAIN leads : leads[l].advisorId = table[n].id

\* PATCH /api/advisors/:id; notFound is what the handler answers when
\* updateAdvisor returns no row
PatchAdvisor(notFound) ==
  /\ apiPosts < MaxApiPosts
  /\ apiPosts' = apiPosts + 1
  /\ \E id \in AdvisorIds, body \in PatchBodies :
       LET hit == RowIndex(db, id)
           req(changed) == Request("PATCH /api/advisors/:id", hit # {}, validPartialAdvisor(body), changed)
       IN  \/ /\ dbFailures < MaxDbFailures
              /\ dbFailures' = dbFailures + 1
              /\ apiStatus' = 500 /\ apiReq' = req(FALSE) /\ db' = db
           \/ /\ dbFailures' = dbFailures
              /\ IF ~id.uuid
                 THEN apiStatus' = 500 /\ apiReq' = req(FALSE) /\ db' = db
                 ELSE IF hit = {}
                 THEN apiStatus' = notFound /\ apiReq' = req(FALSE) /\ db' = db
                 ELSE LET n   == CHOOSE x \in hit : TRUE
                          row == setFields(db[n], body)
                      IN  IF UpdateRejected(db, n, row)
                          THEN apiStatus' = 500 /\ apiReq' = req(FALSE) /\ db' = db
                          ELSE /\ apiStatus' = 200
                               /\ apiReq' = req(row # db[n])
                               /\ db' = [db EXCEPT ![n] = row]

\* the handler of the advisor hub's routes file: res.json(advisor) whatever
\* updateAdvisor returned
ApiUpdateAdvisor ==
  /\ PatchAdvisor(200)
  /\ UNCHANGED <<env, pages, run, pc, i, loopVars, rewriteVars, totals, requests,
                 visited, outcome, prevAdded, processed, fnCall, serverVars>>

\* the handler of server/routes.ts: 404 when updateAdvisor returned no row
ApiUpdateAdvisorOrNotFound ==
  /\ PatchAdvisor(404)
  /\ UNCHANGED <<env, pages, run, pc, i, loopVars, rewriteVars, totals, requests,
                 visited, outcome, prevAdded, processed, fnCall, serverVars>>

\* ------------------------------------------------------------------------
\* The other endpoints of the advisor hub that address one row or take a body
\* ------------------------------------------------------------------------
scriptVars ==
  <<env, pages, run, pc, i, loopVars, rewriteVars, totals, requests, visited,
    outcome, prevAdded, processed>>

AdvisorSlugs == { <<"j", "a", "n", "e", "-", "d", "o", "e", "-", "d", "u", "l", "u", "t", "h", "-", "t", "a", "x", "-", "p", "l", "a", "n", "n", "i", "n", "g">>, <<"a", "l", "-", "r", "o", "e", "-", "a", "t", "l", "a", "n", "t", "a">>, <<"n", "o", "-", "s", "u", "c", "h", "-", "a", "d", "v", "i", "s", "o", "r">> }

\* a GET that looks one row up: 404 when there is none, 500 when the query
\* fails, 200 otherwise
Lookup1(route, wellFormed, found) ==
  /\ \/ /\ dbFailures < MaxDbFailures
        /\ dbFailures' = dbFailures + 1
        /\ apiStatus' = 500
     \/ /\ dbFailures' = dbFailures
        /\ apiStatus' = IF ~wellFormed THEN 500 ELSE IF found THEN 200 ELSE 404
  /\ apiReq' = Request(route, found, TRUE, FALSE)

\* GET /api/advisors/:id
ApiGetAdvisorById ==
  /\ \E id \in AdvisorIds : Lookup1("GET /api/advisors/:id", id.uuid, RowIndex(db, id) # {})
  /\ UNCHANGED <<scriptVars, db, apiPosts, fnCall, serverVars>>

\* GET /api/advisors/slug/:slug
ApiGetAdvisorBySlug ==
  /\ \E slug \in AdvisorSlugs : Lookup1("GET /api/advisors/slug/:slug", TRUE, slug \in Slugs(db))
  /\ UNCHANGED <<scriptVars, db, apiPosts, fnCall, serverVars>>

\* GET /api/seo/advisor/:slug
ApiGetSeoAdvisor ==
  /\ \E slug \in AdvisorSlugs : Lookup1("GET /api/seo/advisor/:slug", TRUE, slug \in Slugs(db))
  /\ UNCHANGED <<scriptVars, db, apiPosts, fnCall, serverVars>>

BlogSlugs == { <<"c", "a", "p", "t", "i", "v", "e", "-", "i", "n", "s", "u", "r", "a", "n", "c", "e", "-", "1", "0", "1">>, <<"d", "r", "a", "f", "t", "-", "p", "o", "s", "t">>, <<"n", "o", "-", "s", "u", "c", "h", "-", "p", "o", "s", "t">> }

\* storage.getBlogPosts: the published posts
getBlogPosts(table) == SelectSeq(table, LAMBDA post : post.isPublished)

\* storage.getBlogPostBySlug: the post with the slug, if any
getBlogPostBySlug(table, slug) == SelectSeq(table, LAMBDA post : post.slug = slug)

\* storage.getAllBlogSlugs: the slugs of the published posts
getAllBlogSlugs(table) == Slugs(SelectSeq(table, LAMBDA post : post.isPublished))

\* a GET that answers with blog posts, named by their slugs: 500 when a
\* query fails, 404 when the one post asked for is not there, 200 otherwise
BlogAnswer(route, found, posts) ==
  \/ /\ dbFailures < MaxDbFailures
     /\ dbFailures' = dbFailures + 1
     /\ apiStatus' = 500
     /\ apiReq' = [route |-> route, found |-> found, valid |-> TRUE, changed |-> FALSE,
                   returned |-> {}]
  \/ /\ dbFailures' = dbFailures
     /\ apiStatus' = IF found THEN 200 ELSE 404
     /\ apiReq' = [route |-> route, found |-> found, valid |-> TRUE, changed |-> FALSE,
                   returned |-> posts]

\* GET /api/blog/:slug
ApiGetBlogPost ==
  /\ \E slug \in BlogSlugs :
       BlogAnswer("GET /api/blog/:slug", getBlogPostBySlug(blogPosts, slug) # << >>,
                  Slugs(getBlogPostBySlug(blogPosts, slug)))
  /\ UNCHANGED <<scriptVars, db, apiPosts, fnCall, serverVars>>

\* GET /api/blog
ApiGetBlogPosts ==
  /\ BlogAnswer("GET /api/blog", TRUE, Slugs(getBlogPosts(blogPosts)))
  /\ UNCHANGED <<scriptVars, db, apiPosts, fnCall, serverVars>>

\* GET /sitemap.xml: the /blog/ urls it lists
ApiSitemap ==
  /\ BlogAnswer("GET /sitemap.xml", TRUE, getAllBlogSlugs(blogPosts))
  /\ UNCHANGED <<scriptVars, db, apiPosts, fnCall, serverVars>>

\* z.string().email(): one @, a name before it, a dotted domain after it
validEmail(e) ==
  /\ Cardinality({ n \in DOMAIN e : e[n] = "@" }) = 1
  /\ LET at == CHOOSE n \in DOMAIN e : e[n] = "@"
     IN  /\ at > 1
         /\ \E d \in (at + 2)..(Len(e) - 1) : e[d] = "."
         /\ \A n \in DOMAIN e : e[n] \notin WhiteSpace

\* insertLeadSchema.safeParse(body).success
validLead(body) ==
  /\ body.advisorId.uuid
  /\ Len(body.userName) >= 2
  /\ validEmail(body.userEmail)
  /\ Len(body.sourcePage) >= 1

LeadBodies ==
  [advisorId : AdvisorIds,
   userName : {<<"P", "a", "t", " ", "L", "e", "e">>},
   userEmail : {<<"p", "a", "t", "@", "e", "x", "a", "m", "p", "l", "e", ".", "c", "o", "m">>, <<"p", "a", "t", ".", "e", "x", "a", "m", "p", "l", "e", ".", "c", "o", "m">>},
   sourcePage : {<<"/", "a", "d", "v", "i", "s", "o", "r", "/", "j", "a", "n", "e", "-", "d", "o", "e", "-", "d", "u", "l", "u", "t", "h", "-", "t", "a", "x", "-", "p", "l", "a", "n", "n", "i", "n", "g">>}]

\* the foreign key of leads.advisor_id
LeadRejectedNever(table, lead) == FALSE

LeadRejected(table, lead) == \A n \in DOMAIN table : table[n].id # lead.advisorId.n

leadRow(table, data) ==
  [id |-> Len(table) + 1, advisorId |-> data.advisorId.n, userName |-> data.userName,
   userEmail |-> data.userEmail, sourcePage |-> data.sourcePage,
   sourceType |-> "reinsurance_cta"]

\* POST /api/leads up to the answer of getAdvisorById
ApiCreateLeadCheck ==
  /\ Len(leads) + Cardinality(pendingLead) < MaxLeads
  /\ \E body \in LeadBodies \ pendingLead :
       LET found == RowIndex(db, body.advisorId) # {}
           req   == Request("POST /api/leads", found, validLead(body), FALSE)
       IN  IF ~validLead(body)
           THEN apiStatus' = 400 /\ apiReq' = req /\ UNCHANGED <<pendingLead, dbFailures>>
           ELSE \/ /\ dbFailures < MaxDbFailures
                   /\ dbFailures' = dbFailures + 1
                   /\ apiStatus' = 500 /\ apiReq' = req /\ UNCHANGED pendingLead
                \/ /\ dbFailures' = dbFailures
                   /\ IF found
                      THEN pendingLead' = pendingLead \cup {body} /\ UNCHANGED <<apiStatus, apiReq>>
                      ELSE apiStatus' = 404 /\ apiReq' = req /\ UNCHANGED pendingLead
  /\ UNCHANGED <<scriptVars, db, apiPosts, fnCall, leads, blogPosts, dealerVars>>

\* POST /api/leads from createLead to the response
ApiCreateLeadInsert ==
  /\ \E body \in pendingLead :
       /\ pendingLead' = pendingLead \ {body}
       /\ IF LeadRejected(db, body)
          THEN /\ apiStatus' = 500
               /\ apiReq' = Request("POST /api/leads", FALSE, TRUE, FALSE)
               /\ leads' = leads
          ELSE /\ apiStatus' = 201
               /\ apiReq' = Request("POST /api/leads", TRUE, TRUE, TRUE)
               /\ leads' = Append(leads, leadRow(leads, body))
  /\ UNCHANGED <<scriptVars, db, dbFailures, apiPosts, fnCall, blogPosts, dealerVars>>

BlogCategories == {"strategy", "tax", "wealth"}

\* insertBlogPostSchema.safeParse(body).success
validBlogPost(body) ==
  /\ Len(body.title) >= 10
  /\ Len(body.slug) >= 5
  /\ \A n \in 1..Len(body.slug) : IsAlnum(body.slug[n]) \/ body.slug[n] = "-"
  /\ Len(body.excerpt) >= 50 /\ Len(body.excerpt) <= 300
  /\ Len(body.content) >= 500
  /\ body.category \in BlogCategories

BlogBodies ==
  { [title |-> <<"C", "a", "p", "t", "i", "v", "e", " ", "I", "n", "s", "u", "r", "a", "n", "c", "e", " ", "1", "0", "1">>, slug |-> <<"c", "a", "p", "t", "i", "v", "e", "-", "i", "n", "s", "u", "r", "a", "n", "c", "e", "-", "1", "0", "1">>, excerpt |-> Padding(50),
     content |-> Padding(500), category |-> "tax", isPublished |-> TRUE],
    [title |-> <<"D", "r", "a", "f", "t", " ", "o", "f", " ", "a", " ", "p", "o", "s", "t">>, slug |-> <<"d", "r", "a", "f", "t", "-", "p", "o", "s", "t">>, excerpt |-> Padding(300),
     content |-> Padding(500), category |-> "strategy", isPublished |-> FALSE],
    [title |-> <<"C", "a", "p", "t", "i", "v", "e", " ", "I", "n", "s", "u", "r", "a", "n", "c", "e", " ", "1", "0", "1">>, slug |-> <<"c", "a", "p", "t", "i", "v", "e", "-", "i", "n", "s", "u", "r", "a", "n", "c", "e", "-", "1", "0", "1">>, excerpt |-> Padding(50),
     content |-> Padding(499), category |-> "tax", isPublished |-> TRUE],
    [title |-> <<"A", "n", "o", "t", "h", "e", "r", " ", "l", "o", "o", "k", " ", "a", "t", " ", "c", "a", "p", "t", "i", "v", "e", "s">>, slug |-> <<"C", "a", "p", "t", "i", "v", "e", " ", "I", "n", "s", "u", "r", "a", "n", "c", "e">>, excerpt |-> Padding(50),
     content |-> Padding(500), category |-> "wealth", isPublished |-> TRUE] }

blogRow(table, data) ==
  [id |-> Len(table) + 1, title |-> data.title, slug |-> data.slug, excerpt |-> data.excerpt,
   content |-> data.content, category |-> data.category, readTime |-> "5 min read",
   isPublished |-> data.isPublished]

\* POST /api/blog
ApiCreateBlogPost ==
  /\ Len(blogPosts) < MaxBlogPosts
  /\ \E body \in BlogBodies :
       LET taken == body.slug \in Slugs(blogPosts)
           req(changed) == Request("POST /api/blog", taken, validBlogPost(body), changed)
       IN  IF ~validBlogPost(body)
           THEN apiStatus' = 400 /\ apiReq' = req(FALSE) /\ UNCHANGED <<blogPosts, dbFailures>>
           ELSE \/ /\ dbFailures < MaxDbFailures
                   /\ dbFailures' = dbFailures + 1
                   /\ apiStatus' = 500 /\ apiReq' = req(FALSE) /\ UNCHANGED blogPosts
                \/ /\ dbFailures' = dbFailures
                   /\ IF taken
                      THEN apiStatus' = 409 /\ apiReq' = req(FALSE) /\ UNCHANGED blogPosts
                      ELSE /\ apiStatus' = 201 /\ apiReq' = req(TRUE)
                           /\ blogPosts' = Append(blogPosts, blogRow(blogPosts, body))
  /\ UNCHANGED <<scriptVars, db, apiPosts, fnCall, leads, pendingLead, dealerVars>>

\* the advisors the seed script inserts before the server takes requests
SeededAdvisors ==
  LET jane == CHOOSE b \in ApiBodies : validAdvisor([b EXCEPT !.slug = <<"j", "a", "n", "e", "-", "d", "o", "e", "-", "d", "u", "l", "u", "t", "h", "-", "t", "a", "x", "-", "p", "l", "a", "n", "n", "i", "n", "g">>])
      al   == CHOOSE b \in ApiBodies : b # jane
      row1 == apiRow(<< >>, [jane EXCEPT !.slug = generateAdvisorSlug(jane.name, jane.city, jane.specialties[1])])
      row2 == apiRow(<<row1>>, [al EXCEPT !.state = normalizeState(al.state),
                                          !.slug = generateAdvisorSlug(al.name, al.city, Empty)])
  IN  <<row1, row2>>

InitApi ==
  /\ env = Credentials
  /\ pages = [s \in Sources |-> << >>]
  /\ run = 1
  /\ pc = "serving"
  /\ i = 1 /\ j = 1 /\ k = 1
  /\ scraped = << >> /\ newAdvisors = << >> /\ prioritizedAdvisors = << >>
  /\ attempt = 1 /\ lastError = "none" /\ rewrittenData = NoData
  /\ attemptResult = "none" /\ aiTrace = << >>
  /\ totalSuccess = 0 /\ totalSkipped = 0 /\ totalErrors = 0 /\ totalScraped = 0
  /\ db \in { << >>, SeededAdvisors }
  /\ dbFailures = 0
  /\ apiPosts = 0 /\ apiStatus = 0 /\ apiReq = NoRequest
  /\ ServerStart
  /\ requests = {} /\ visited = {}
  /\ outcome = [c \in Candidates |-> NoOutcome]
  /\ prevAdded = {}
  /\ processed = << >>
  /\ fnCall = NoCall

NextApi ==
  \/ ApiCreateAdvisor
  \/ ApiUpdateAdvisor
  \/ ApiUpdateAdvisorOrNotFound
  \/ ApiGetAdvisorById
  \/ ApiGetAdvisorBySlug
  \/ ApiGetSeoAdvisor
  \/ ApiGetBlogPost
  \/ ApiGetBlogPosts
  \/ ApiSitemap
  \/ ApiCreateLeadCheck
  \/ ApiCreateLeadInsert
  \/ ApiCreateBlogPost

SpecApi == InitApi /\ [][NextApi]_vars

\* ------------------------------------------------------------------------
\* server/routes.ts (dealer app): PATCH /api/vehicles/:id, POST
\* /api/verify-code and GET /api/dealer/transactions. A request in flight is
\* a record; each action is one storage call of its handler returning, with
\* the code up to the next call.
\* ------------------------------------------------------------------------
otherThanDealer == <<scriptVars, db, apiVars, fnCall, hubVars>>

VehicleStatuses == {"active", "sold", "removed"}

NewRequest(kind, vehicleId, status, code, at) ==
  [n |-> dealerStarted + 1, kind |-> kind, vehicleId |-> vehicleId, status |-> status,
   code |-> code, pc |-> at, current |-> "none", moved |-> FALSE, flipped |-> {},
   txn |-> 0, usage |-> 0, offerId |-> 0, overwrote |-> "none"]

TransactionsOf(table, vehicleId) == { t \in DOMAIN table : table[t].vehicleId = vehicleId }

\* the answer to a PATCH /api/vehicles/:id request, with what the request did
PatchAnswer(r, status, table) ==
  [route |-> "PATCH /api/vehicles/:id", status |-> status, moved |-> r.moved,
   cancelledAll |-> \A t \in TransactionsOf(table, r.vehicleId) : table[t].cancelled,
   flipped |-> r.flipped, listed |-> {}]

Answer(route, status) ==
  [route |-> route, status |-> status, moved |-> FALSE, cancelledAll |-> FALSE,
   flipped |-> {}, listed |-> {}]

\* PATCH /api/vehicles/:id up to the call of storage.getVehicle
PatchVehicleReceive ==
  /\ dealerStarted < MaxDealerRequests
  /\ dealerStarted' = dealerStarted + 1
  /\ \E id \in VehicleIds \cup {3}, status \in {"active", "sold", "parked"} :
       IF status \notin VehicleStatuses
       THEN /\ dealerReq' = Answer("PATCH /api/vehicles/:id", 400)
            /\ UNCHANGED inflight
       ELSE /\ inflight' = inflight \cup {NewRequest("patch", id, status, "", "getVehicle")}
            /\ UNCHANGED dealerReq
  /\ UNCHANGED <<vehicles, transactions, buyCodes, dbFailures, offerVars, purchased, otherThanDealer>>

\* storage.getVehicle returned: 404, or the call of storage.updateVehicle
PatchVehicleLoaded ==
  /\ \E r \in inflight :
       /\ r.kind = "patch" /\ r.pc = "getVehicle"
       /\ IF r.vehicleId \notin DOMAIN vehicles
          THEN /\ inflight' = inflight \ {r}
               /\ dealerReq' = Answer("PATCH /api/vehicles/:id", 404)
          ELSE /\ inflight' = (inflight \ {r}) \cup
                    {[r EXCEPT !.pc = "updateVehicle", !.current = vehicles[r.vehicleId].status]}
               /\ UNCHANGED dealerReq
  /\ UNCHANGED <<vehicles, transactions, buyCodes, dealerStarted, dbFailures, offerVars, purchased, otherThanDealer>>

\* storage.updateVehicle returned: the row has the new status; the handler
\* cancels when the status it read earlier was not active
PatchVehicleUpdated ==
  /\ \E r \in inflight :
       /\ r.kind = "patch" /\ r.pc = "updateVehicle"
       /\ vehicles' = [vehicles EXCEPT ![r.vehicleId].status = r.status]
       /\ LET done == [r EXCEPT !.moved = r.status = "active"
                                            /\ vehicles[r.vehicleId].status # "active"]
          IN  IF r.status = "active" /\ r.current # "active"
              THEN /\ inflight' = (inflight \ {r}) \cup {[done EXCEPT !.pc = "cancel"]}
                   /\ UNCHANGED dealerReq
              ELSE /\ inflight' = inflight \ {r}
                   /\ dealerReq' = PatchAnswer(done, 200, transactions)
  /\ UNCHANGED <<transactions, buyCodes, dealerStarted, dbFailures, offerVars, purchased, otherThanDealer>>

\* storage.cancelVehicleTransactions
cancelVehicleTransactions(table, vehicleId) ==
  [t \in DOMAIN table |->
     IF table[t].vehicleId = vehicleId THEN [table[t] EXCEPT !.cancelled = TRUE] ELSE table[t]]

\* storage.cancelVehicleTransactions returned: res.json(vehicle)
PatchVehicleCancelled ==
  /\ \E r \in inflight :
       /\ r.kind = "patch" /\ r.pc = "cancel"
       /\ transactions' = cancelVehicleTransactions(transactions, r.vehicleId)
       /\ inflight' = inflight \ {r}
       /\ dealerReq' = PatchAnswer(
            [r EXCEPT !.flipped = { t \in TransactionsOf(transactions, r.vehicleId) :
                                      ~transactions[t].cancelled }],
            200, transactions')
  /\ UNCHANGED <<vehicles, buyCodes, dealerStarted, dbFailures, offerVars, purchased, otherThanDealer>>

\* POST /api/verify-code up to the call of storage.getBuyCode
VerifyCodeReceive ==
  /\ dealerStarted < MaxDealerRequests
  /\ dealerStarted' = dealerStarted + 1
  /\ \E id \in VehicleIds, code \in {"DEALER1", "NOCODE", ""} :
       IF code = ""
       THEN /\ dealerReq' = Answer("POST /api/verify-code", 400)
            /\ UNCHANGED inflight
       ELSE /\ inflight' = inflight \cup {NewRequest("verify", id, "", code, "getBuyCode")}
            /\ UNCHANGED dealerReq
  /\ UNCHANGED <<vehicles, transactions, buyCodes, dbFailures, offerVars, purchased, otherThanDealer>>

\* storage.getBuyCode returned: 403, or the call of storage.getVehicle
VerifyCodeBuyCode ==
  /\ \E r \in inflight :
       /\ r.kind = "verify" /\ r.pc = "getBuyCode"
       /\ IF r.code \notin DOMAIN buyCodes \/ ~buyCodes[r.code].active
          THEN /\ inflight' = inflight \ {r}
               /\ dealerReq' = Answer("POST /api/verify-code", 403)
          ELSE /\ inflight' = (inflight \ {r}) \cup {[r EXCEPT !.pc = "getVehicle"]}
               /\ UNCHANGED dealerReq
  /\ UNCHANGED <<vehicles, transactions, buyCodes, dealerStarted, dbFailures, offerVars, purchased, otherThanDealer>>

\* storage.getVehicle returned: 404, 400 for a sold vehicle, or the call of
\* storage.createTransaction
VerifyCodeVehicle ==
  /\ \E r \in inflight :
       /\ r.kind = "verify" /\ r.pc = "getVehicle"
       /\ IF r.vehicleId \notin DOMAIN vehicles
          THEN /\ inflight' = inflight \ {r}
               /\ dealerReq' = Answer("POST /api/verify-code", 404)
          ELSE IF vehicles[r.vehicleId].status = "sold"
          THEN /\ inflight' = inflight \ {r}
               /\ dealerReq' = Answer("POST /api/verify-code", 400)
          ELSE /\ inflight' = (inflight \ {r}) \cup {[r EXCEPT !.pc = "createTransaction"]}
               /\ UNCHANGED dealerReq
  /\ UNCHANGED <<vehicles, transactions, buyCodes, dealerStarted, dbFailures, offerVars, purchased, otherThanDealer>>

\* storage.createTransaction returned: the call of updateBuyCodeUsage
VerifyCodeTransaction ==
  /\ \E r \in inflight :
       /\ r.kind = "verify" /\ r.pc = "createTransaction"
       /\ transactions' = Append(transactions,
            [id |-> Len(transactions) + 1, vehicleId |-> r.vehicleId,
             dealerId |-> buyCodes[r.code].dealerId, buyCodeId |-> buyCodes[r.code].id,
             status |-> "pending", isPaid |-> FALSE, cancelled |-> FALSE])
       /\ inflight' = (inflight \ {r}) \cup
            {[r EXCEPT !.pc = "usageSelect", !.txn = Len(transactions) + 1]}
  /\ UNCHANGED <<vehicles, buyCodes, dealerStarted, dealerReq, dbFailures, offerVars, purchased, otherThanDealer>>

\* updateBuyCodeUsage: the select returned
VerifyCodeUsageRead ==
  /\ \E r \in inflight :
       /\ r.kind = "verify" /\ r.pc = "usageSelect"
       /\ inflight' = (inflight \ {r}) \cup
            {[r EXCEPT !.pc = "usageUpdate", !.usage = buyCodes[r.code].usageCount]}
  /\ UNCHANGED <<vehicles, transactions, buyCodes, dealerStarted, dealerReq, dbFailures,
                 offerVars, purchased, otherThanDealer>>

\* updateBuyCodeUsage: the update returned; the call of storage.updateVehicle
VerifyCodeUsageWritten ==
  /\ \E r \in inflight :
       /\ r.kind = "verify" /\ r.pc = "usageUpdate"
       /\ buyCodes' = [buyCodes EXCEPT ![r.code].usageCount = r.usage + 1]
       /\ inflight' = (inflight \ {r}) \cup {[r EXCEPT !.pc = "updateVehicle"]}
  /\ UNCHANGED <<vehicles, transactions, dealerStarted, dealerReq, dbFailures, offerVars, purchased, otherThanDealer>>

\* storage.updateVehicle returned: the vehicle is sold; res.json
VerifyCodeSold ==
  /\ \E r \in inflight :
       /\ r.kind = "verify" /\ r.pc = "updateVehicle"
       /\ vehicles' = [vehicles EXCEPT ![r.vehicleId] = [status |-> "sold", inQueue |-> FALSE]]
       /\ inflight' = inflight \ {r}
       /\ dealerReq' = Answer("POST /api/verify-code", 200)
       /\ purchased' = [purchased EXCEPT ![r.code] = @ + 1]
  /\ UNCHANGED <<transactions, buyCodes, dealerStarted, dbFailures, offerVars, otherThanDealer>>

\* storage.getDealerTransactions
getDealerTransactions(table, dealerId) ==
  { table[t] : t \in { x \in DOMAIN table : table[x].dealerId = dealerId /\ ~table[x].cancelled } }

\* GET /api/dealer/transactions
DealerTransactions ==
  /\ dealerReq' = [Answer("GET /api/dealer/transactions", 200)
                     EXCEPT !.listed = getDealerTransactions(transactions, 1)]
  /\ UNCHANGED <<vehicles, transactions, buyCodes, inflight, dealerStarted, dbFailures,
                 offerVars, purchased, otherThanDealer>>

\* ------------------------------------------------------------------------
\* server/routes.ts (dealer app): PATCH /api/offers/:id (admin), PATCH
\* /api/dealer/offers/:id and the expiry that GET /api/offers and GET
\* /api/dealer/offers run first
\* ------------------------------------------------------------------------
OfferIds == DOMAIN OffersAtStart

OfferRequest(kind, offerId, status) ==
  [NewRequest(kind, 0, status, "", "getOffer") EXCEPT !.offerId = offerId]

\* the answer to a request about an offer, with what the request did: the
\* status its updateOffer replaced and the transaction it created
OfferAnswer(route, r, status) ==
  [route |-> route, status |-> status, moved |-> FALSE, cancelledAll |-> FALSE,
   flipped |-> {}, listed |-> {}, offerId |-> r.offerId, action |-> r.status,
   overwrote |-> r.overwrote, txn |-> r.txn]

\* storage.createTransaction for an accepted offer
offerTransaction(table, vehicleId, dealerId) ==
  [id |-> Len(table) + 1, vehicleId |-> vehicleId, dealerId |-> dealerId, buyCodeId |-> 1,
   status |-> "pending", isPaid |-> FALSE, cancelled |-> FALSE]

\* storage.createOfferActivity
offerActivity(offerId, actorType, actionType) ==
  [offerId |-> offerId, actorType |-> actorType, actionType |-> actionType]

\* the switch over status in PATCH /api/offers/:id
adminActionType(status) ==
  IF status = "accepted" THEN "offer_accepted"
  ELSE IF status = "declined" THEN "offer_declined"
  ELSE IF status = "countered" THEN "offer_countered"
  ELSE ""

\* PATCH /api/offers/:id up to the call of storage.getOfferWithActivities
OfferPatchReceive ==
  /\ dealerStarted < MaxDealerRequests
  /\ dealerStarted' = dealerStarted + 1
  /\ \E id \in OfferIds \cup {9}, status \in {"accepted", "declined", "countered"} :
       inflight' = inflight \cup {OfferRequest("adminOffer", id, status)}
  /\ UNCHANGED <<vehicles, transactions, buyCodes, dealerReq, dbFailures, offerVars,
                 purchased, otherThanDealer>>

\* storage.getOfferWithActivities returned: 404, or the call of
\* storage.updateOffer
OfferPatchLoaded ==
  /\ \E r \in inflight :
       /\ r.kind = "adminOffer" /\ r.pc = "getOffer"
       /\ IF r.offerId \notin DOMAIN offers
          THEN /\ inflight' = inflight \ {r}
               /\ dealerReq' = OfferAnswer("PATCH /api/offers/:id", r, 404)
          ELSE /\ inflight' = (inflight \ {r}) \cup
                    {[r EXCEPT !.pc = "updateOffer", !.current = offers[r.offerId].status]}
               /\ UNCHANGED dealerReq
  /\ UNCHANGED <<vehicles, transactions, buyCodes, dealerStarted, dbFailures, offerVars,
                 purchased, otherThanDealer>>

\* storage.updateOffer returned: the row has the status of the body;
\* for 'accepted' the call of storage.getVehicle follows, otherwise the
\* call of storage.createOfferActivity
OfferPatchUpdated ==
  /\ \E r \in inflight :
       /\ r.kind = "adminOffer" /\ r.pc = "updateOffer"
       /\ offers' = [offers EXCEPT ![r.offerId].status = r.status]
       /\ inflight' = (inflight \ {r}) \cup
            {[r EXCEPT !.pc = IF r.status = "accepted" THEN "getVehicle" ELSE "createActivity",
                       !.overwrote = offers[r.offerId].status,
                       !.vehicleId = offers[r.offerId].vehicleId]}
  /\ UNCHANGED <<vehicles, transactions, buyCodes, dealerStarted, dealerReq, dbFailures,
                 offerActivities, purchased, otherThanDealer>>

\* storage.getVehicle returned: `if (vehicle)`
OfferPatchVehicle ==
  /\ \E r \in inflight :
       /\ r.kind = "adminOffer" /\ r.pc = "getVehicle"
       /\ inflight' = (inflight \ {r}) \cup
            {[r EXCEPT !.pc = IF r.vehicleId \in DOMAIN vehicles
                              THEN "createTransaction" ELSE "createActivity"]}
  /\ UNCHANGED <<vehicles, transactions, buyCodes, dealerStarted, dealerReq, dbFailures,
                 offerVars, purchased, otherThanDealer>>

\* storage.createTransaction returned
OfferPatchTransaction ==
  /\ \E r \in inflight :
       /\ r.kind = "adminOffer" /\ r.pc = "createTransaction"
       /\ transactions' = Append(transactions,
            offerTransaction(transactions, r.vehicleId, offers[r.offerId].dealerId))
       /\ inflight' = (inflight \ {r}) \cup
            {[r EXCEPT !.pc = "updateVehicle", !.txn = Len(transactions) + 1]}
  /\ UNCHANGED <<vehicles, buyCodes, dealerStarted, dealerReq, dbFailures, offerVars,
                 purchased, otherThanDealer>>

\* storage.updateVehicle(offer.vehicleId, { status: 'sold' }) returned
OfferPatchSold ==
  /\ \E r \in inflight :
       /\ r.kind = "adminOffer" /\ r.pc = "updateVehicle"
       /\ vehicles' = [vehicles EXCEPT ![r.vehicleId].status = "sold"]
       /\ inflight' = (inflight \ {r}) \cup {[r EXCEPT !.pc = "createActivity"]}
  /\ UNCHANGED <<transactions, buyCodes, dealerStarted, dealerReq, dbFailures, offerVars,
                 purchased, otherThanDealer>>

\* storage.createOfferActivity returned: res.json(offer)
OfferPatchActivity ==
  /\ \E r \in inflight :
       /\ r.kind = "adminOffer" /\ r.pc = "createActivity"
       /\ offerActivities' = Append(offerActivities,
            offerActivity(r.offerId, "admin", adminActionType(r.status)))
       /\ inflight' = inflight \ {r}
       /\ dealerReq' = OfferAnswer("PATCH /api/offers/:id", r, 200)
  /\ UNCHANGED <<vehicles, transactions, buyCodes, dealerStarted, dbFailures, offers,
                 purchased, otherThanDealer>>

\* newStatus in PATCH /api/dealer/offers/:id
dealerNewStatus(action) == IF action = "accept" THEN "accepted" ELSE "declined"

\* PATCH /api/dealer/offers/:id up to the call of
\* storage.getOfferWithActivities
DealerOfferReceive ==
  /\ dealerStarted < MaxDealerRequests
  /\ dealerStarted' = dealerStarted + 1
  /\ \E id \in OfferIds \cup {9}, action \in {"accept", "decline", "hold"} :
       inflight' = inflight \cup {OfferRequest("dealerOffer", id, action)}
  /\ UNCHANGED <<vehicles, transactions, buyCodes, dealerReq, dbFailures, offerVars,
                 purchased, otherThanDealer>>

\* storage.getOfferWithActivities returned: 404, 400 unless the offer is
\* countered, then the call of storage.getVehicle for 'accept' and of
\* storage.updateOffer otherwise
DealerOfferLoaded ==
  /\ \E r \in inflight :
       /\ r.kind = "dealerOffer" /\ r.pc = "getOffer"
       /\ IF r.offerId \notin DOMAIN offers
          THEN /\ inflight' = inflight \ {r}
               /\ dealerReq' = OfferAnswer("PATCH /api/dealer/offers/:id", r, 404)
          ELSE IF offers[r.offerId].status # "countered"
          THEN /\ inflight' = inflight \ {r}
               /\ dealerReq' = OfferAnswer("PATCH /api/dealer/offers/:id", r, 400)
          ELSE /\ inflight' = (inflight \ {r}) \cup
                    {[r EXCEPT !.pc = IF r.status = "accept" THEN "getVehicle" ELSE "updateOffer",
                               !.current = offers[r.offerId].status,
                               !.vehicleId = offers[r.offerId].vehicleId]}
               /\ UNCHANGED dealerReq
  /\ UNCHANGED <<vehicles, transactions, buyCodes, dealerStarted, dbFailures, offerVars,
                 purchased, otherThanDealer>>

\* storage.getVehicle returned: `if (vehicle)`
DealerOfferVehicle ==
  /\ \E r \in inflight :
       /\ r.kind = "dealerOffer" /\ r.pc = "getVehicle"
       /\ inflight' = (inflight \ {r}) \cup
            {[r EXCEPT !.pc = IF r.vehicleId \in DOMAIN vehicles
                              THEN "createTransaction" ELSE "updateOffer"]}
  /\ UNCHANGED <<vehicles, transactions, buyCodes, dealerStarted, dealerReq, dbFailures,
                 offerVars, purchased, otherThanDealer>>

\* storage.createTransaction returned
DealerOfferTransaction ==
  /\ \E r \in inflight :
       /\ r.kind = "dealerOffer" /\ r.pc = "createTransaction"
       /\ transactions' = Append(transactions,
            offerTransaction(transactions, r.vehicleId, offers[r.offerId].dealerId))
       /\ inflight' = (inflight \ {r}) \cup
            {[r EXCEPT !.pc = "updateVehicle", !.txn = Len(transactions) + 1]}
  /\ UNCHANGED <<vehicles, buyCodes, dealerStarted, dealerReq, dbFailures, offerVars,
                 purchased, otherThanDealer>>

\* storage.updateVehicle(currentOffer.vehicleId, { status: 'sold' }) returned
DealerOfferSold ==
  /\ \E r \in inflight :
       /\ r.kind = "dealerOffer" /\ r.pc = "updateVehicle"
       /\ vehicles' = [vehicles EXCEPT ![r.vehicleId].status = "sold"]
       /\ inflight' = (inflight \ {r}) \cup {[r EXCEPT !.pc = "updateOffer"]}
  /\ UNCHANGED <<transactions, buyCodes, dealerStarted, dealerReq, dbFailures, offerVars,
                 purchased, otherThanDealer>>

\* storage.updateOffer(offerId, { status: newStatus }) returned
DealerOfferUpdated ==
  /\ \E r \in inflight :
       /\ r.kind = "dealerOffer" /\ r.pc = "updateOffer"
       /\ offers' = [offers EXCEPT ![r.offerId].status = dealerNewStatus(r.status)]
       /\ inflight' = (inflight \ {r}) \cup
            {[r EXCEPT !.pc = "createActivity", !.overwrote = offers[r.offerId].status]}
  /\ UNCHANGED <<vehicles, transactions, buyCodes, dealerStarted, dealerReq, dbFailures,
                 offerActivities, purchased, otherThanDealer>>

\* storage.createOfferActivity returned: res.json(offer)
DealerOfferActivity ==
  /\ \E r \in inflight :
       /\ r.kind = "dealerOffer" /\ r.pc = "createActivity"
       /\ offerActivities' = Append(offerActivities,
            offerActivity(r.offerId, "dealer",
                          IF r.status = "accept" THEN "counter_accepted" ELSE "counter_declined"))
       /\ inflight' = inflight \ {r}
       /\ dealerReq' = OfferAnswer("PATCH /api/dealer/offers/:id", r, 200)
  /\ UNCHANGED <<vehicles, transactions, buyCodes, dealerStarted, dbFailures, offers,
                 purchased, otherThanDealer>>

\* storage.expireOldOffers: one UPDATE over the pending offers whose
\* expiresAt has passed
expireOldOffers(table) ==
  [o \in DOMAIN table |->
     IF table[o].due /\ table[o].status = "pending"
     THEN [table[o] EXCEPT !.status = "expired"]
     ELSE table[o]]

\* GET /api/offers and GET /api/dealer/offers: `await storage.expireOldOffers()`
ExpireOldOffers ==
  /\ offers' = expireOldOffers(offers)
  /\ dealerReq' = Answer("GET /api/offers", 200)
  /\ UNCHANGED <<vehicles, transactions, buyCodes, inflight, dealerStarted, dbFailures,
                 offerActivities, purchased, otherThanDealer>>

\* the storage call a request waits for throws: the handler's catch answers 500
StorageCallFails ==
  /\ dbFailures < MaxDbFailures
  /\ dbFailures' = dbFailures + 1
  /\ \E r \in inflight :
       /\ inflight' = inflight \ {r}
       /\ dealerReq' = IF r.kind = "patch"
                       THEN PatchAnswer(r, 500, transactions)
                       ELSE IF r.kind = "adminOffer"
                       THEN OfferAnswer("PATCH /api/offers/:id", r, 500)
                       ELSE IF r.kind = "dealerOffer"
                       THEN OfferAnswer("PATCH /api/dealer/offers/:id", r, 500)
                       ELSE Answer("POST /api/verify-code", 500)
  /\ UNCHANGED <<vehicles, transactions, buyCodes, dealerStarted, offerVars, purchased, otherThanDealer>>

InitDealer == InitApi /\ db = << >>

NextDealer ==
  \/ PatchVehicleReceive
  \/ PatchVehicleLoaded
  \/ PatchVehicleUpdated
  \/ PatchVehicleCancelled
  \/ VerifyCodeReceive
  \/ VerifyCodeBuyCode
  \/ VerifyCodeVehicle
  \/ VerifyCodeTransaction
  \/ VerifyCodeUsageRead
  \/ VerifyCodeUsageWritten
  \/ VerifyCodeSold
  \/ DealerTransactions
  \/ OfferPatchReceive
  \/ OfferPatchLoaded
  \/ OfferPatchUpdated
  \/ OfferPatchVehicle
  \/ OfferPatchTransaction
  \/ OfferPatchSold
  \/ OfferPatchActivity
  \/ DealerOfferReceive
  \/ DealerOfferLoaded
  \/ DealerOfferVehicle
  \/ DealerOfferTransaction
  \/ DealerOfferSold
  \/ DealerOfferUpdated
  \/ DealerOfferActivity
  \/ ExpireOldOffers
  \/ StorageCallFails

SpecDealer == InitDealer /\ [][NextDealer]_vars

\* ------------------------------------------------------------------------
\* The script and the API together
\* ------------------------------------------------------------------------
Next ==
  \/ ImportModules
  \/ MainValidate
  \/ Scrape
  \/ EarlyCheck
  \/ Process
  \/ AiCall
  \/ Backoff
  \/ Insert
  \/ Delay500
  \/ Delay3000
  \/ StartNextRun
  \/ ApiCreateAdvisor

Spec == Init /\ [][Next]_vars

\* One run of the script, the create endpoint and the update endpoint over
\* one table
NextWithUpdates ==
  \/ ImportModules
  \/ MainValidate
  \/ Scrape
  \/ EarlyCheck
  \/ Process
  \/ AiCall
  \/ Backoff
  \/ Insert
  \/ Delay500
  \/ Delay3000
  \/ ApiCreateAdvisor
  \/ ApiUpdateAdvisor

\* the script runs with its credentials over the listing pages in their order
InitWithUpdates ==
  /\ Init
  /\ env = Credentials
  /\ pages = [s \in Sources |-> Pages[((s - 1) % Len(Pages)) + 1]]

SpecWithUpdates == InitWithUpdates /\ [][NextWithUpdates]_vars

\* ------------------------------------------------------------------------
\* The pure helpers applied directly to enumerated inputs
\* ------------------------------------------------------------------------
NameInputs ==
  { <<"J", "a", "n", "e", " ", "D", "o", "e">>, <<" ", "J", "a", "n", "e", " ", "D", "o", "e", ",", " ", "C", "P", "A", " ">>, <<"-", "J", "a", "n", "e">>, <<"C", "F", "P", "®">> }
  \cup { Padding(n) \o <<" ", "x">> : n \in (SlugMaxLen - 4)..SlugMaxLen }

CityInputs == { Empty, <<"D", "u", "l", "u", "t", "h">>, <<"N", "e", "w", " ", "Y", "o", "r", "k">>, <<"-">> }

SpecialtyInputs == { Empty, <<"T", "a", "x", " ", "P", "l", "a", "n", "n", "i", "n", "g">>, <<"8", "3", "1", "(", "b", ")", " ", "P", "l", "a", "n", "s", "!">> }

BioInputs ==
  { Empty,
    <<"S", "t", "r", "a", "t", "e", "g", "i", "c", ",", " ", "p", "r", "o", "a", "c", "t", "i", "v", "e", " ", "t", "a", "x", " ", "p", "l", "a", "n", "n", "i", "n", "g", " ", "f", "o", "r", " ", "e", "v", "e", "r", "y", " ", "e", "n", "t", "r", "e", "p", "r", "e", "n", "e", "u", "r", ";", " ", "c", "a", "p", "t", "i", "v", "e", " ", "a", "n", "d", " ", "r", "e", "i", "n", "s", "u", "r", "a", "n", "c", "e", ".">>,
    <<"F", "e", "e", "-", "o", "n", "l", "y", " ", "f", "i", "d", "u", "c", "i", "a", "r", "y", ":", " ", "a", "c", "c", "o", "u", "n", "t", "i", "n", "g", ",", " ", "i", "n", "v", "e", "s", "t", "m", "e", "n", "t", ",", " ", "r", "e", "t", "i", "r", "e", "m", "e", "n", "t", ",", " ", "e", "x", "e", "c", "u", "t", "i", "v", "e", " ", "a", "n", "d", " ", "c", "o", "r", "p", "o", "r", "a", "t", "e", " ", "p", "l", "a", "n", "s", ".">>,
    <<"A", " ", "C", "F", "P", " ", "a", "n", "d", " ", "C", "P", "A", " ", "o", "f", "f", "e", "r", "i", "n", "g", " ", "e", "s", "t", "a", "t", "e", " ", "p", "l", "a", "n", "n", "i", "n", "g", ",", " ", "s", "u", "c", "c", "e", "s", "s", "i", "o", "n", ",", " ", "w", "e", "a", "l", "t", "h", " ", "p", "r", "e", "s", "e", "r", "v", "a", "t", "i", "o", "n", ",", " ", "t", "a", "x", " ", "o", "p", "t", "i", "m", "i", "z", "a", "t", "i", "o", "n", ",", " ", "i", "n", "v", "e", "s", "t", "m", "e", "n", "t", ",", " ", "r", "e", "t", "i", "r", "e", "m", "e", "n", "t", ",", " ", "a", "c", "c", "o", "u", "n", "t", "i", "n", "g", ",", " ", "f", "i", "d", "u", "c", "i", "a", "r", "y", ",", " ", "f", "e", "e", "-", "o", "n", "l", "y", " ", "c", "o", "r", "p", "o", "r", "a", "t", "e", " ", "a", "d", "v", "i", "c", "e", ".">> }

ScoreInputs ==
  [name : {<<"J", "a", "n", "e", " ", "D", "o", "e">>, <<"H", "n", "w", " ", "T", "a", "x", " ", "G", "r", "o", "u", "p">>},
   firmName : {Empty, <<"S", "t", "r", "a", "t", "e", "g", "i", "c", " ", "W", "e", "a", "l", "t", "h", " ", "M", "a", "n", "a", "g", "e", "m", "e", "n", "t">>},
   bio : BioInputs,
   designation : Designations,
   specialties : {<< >>, <<<<"T", "a", "x", " ", "P", "l", "a", "n", "n", "i", "n", "g">>>>, <<<<"F", "i", "n", "a", "n", "c", "i", "a", "l", " ", "P", "l", "a", "n", "n", "i", "n", "g">>, <<"R", "e", "t", "i", "r", "e", "m", "e", "n", "t">>>>}]

\* city texts as the parsers and the slug check pass them to normalizeCity
CityTexts ==
  { CITY_NORMALIZATIONS[n].key : n \in DOMAIN CITY_NORMALIZATIONS }
  \cup { <<" ", "N", "Y", "C", " ">>, <<"A", "t", "l">>, <<"D", "A", "L", "L", "A", "S", "-", "F", "O", "R", "T", " ", "W", "O", "R", "T", "H">>, <<"D", "f", "w", " ", " ">>, <<"	", "v", "e", "g", "a", "s">>, <<"P", "h", "i", "l", "l", "y", " ">>,
         <<"d", "u", "l", "u", "t", "h">>, <<"n", "e", "w", " ", " ", "y", "o", "r", "k">>, <<" ", "s", "a", "n", " ", "F", "R", "A", "N", "C", "I", "S", "C", "O">>, <<"D", "a", "l", "l", "a", "s">>, Empty }

\* state texts as the parsers pass them to normalizeState
StateTexts ==
  { STATE_NAMES[n].abbr : n \in DOMAIN STATE_NAMES }
  \cup { STATE_NAMES[n].name : n \in DOMAIN STATE_NAMES }
  \cup { <<"g", "a">>, <<" ", "G", "a", " ">>, <<"g", "e", "o", "r", "g", "i", "a">>, <<"G", "E", "O", "R", "G", "I", "A">>, <<" ", "N", "e", "w", " ", "y", "o", "r", "k">>, <<"d", "i", "s", "t", "r", "i", "c", "t", " ", "o", "f", " ", "c", "o", "l", "u", "m", "b", "i", "a">>,
         <<"O", "n", "t", "a", "r", "i", "o">>, <<"z", "z">>, <<" ", "q", " ">>, <<"X">>, <<"G", "e", "o", "r", "g", "i", "a", ".">>, <<" ", " ">>, Empty }

\* ------------------------------------------------------------------------
\* One run of the script over listing pages given by their content: the
\* first source holds one card, the others none; the table starts empty
\* ------------------------------------------------------------------------
InitCards ==
  /\ env \in SUBSET Credentials
  /\ \E content \in JaneDoeContents :
       pages = [s \in Sources |->
                  parseWealthtenderAdvisors(IF s = 1 THEN content ELSE NoResults,
                                            DEFAULT_LIMIT)]
  /\ run = 1
  /\ pc = "import"
  /\ i = 1 /\ j = 1 /\ k = 1
  /\ scraped = << >> /\ newAdvisors = << >> /\ prioritizedAdvisors = << >>
  /\ attempt = 1 /\ lastError = "none" /\ rewrittenData = NoData
  /\ attemptResult = "none" /\ aiTrace = << >>
  /\ totalSuccess = 0 /\ totalSkipped = 0 /\ totalErrors = 0 /\ totalScraped = 0
  /\ db = << >> /\ dbFailures = 0
  /\ apiPosts = 0 /\ apiStatus = 0 /\ apiReq = NoRequest
  /\ ServerStart
  /\ requests = {} /\ visited = {}
  /\ outcome = [c \in Candidates |-> NoOutcome]
  /\ prevAdded = {}
  /\ processed = << >>
  /\ fnCall = NoCall

NextCards ==
  \/ ImportModules
  \/ MainValidate
  \/ Scrape
  \/ EarlyCheck
  \/ Process
  \/ AiCall
  \/ Backoff
  \/ Insert
  \/ Delay500
  \/ Delay3000

SpecCards == InitCards /\ [][NextCards]_vars

\* ------------------------------------------------------------------------
\* One run of runScraperPipeline in which every external call returns or
\* fails: no step of the script is put off forever
\* ------------------------------------------------------------------------
position == <<pc, j>>

\* the await of a storage query or of the AI call at one point of the
\* script completes, with a result or with an error: the script moves on
\* from that point
CallReturns(at) ==
  /\ pc = at
  /\ pc' \in {"earlyCheck", "process", "ai", "backoff", "insert", "delay500",
              "delay3000", "done", "exitFailed"}
  /\ j' \in 1..(MaxCands + 1)

RunFairness ==
  /\ WF_vars(ImportModules)
  /\ WF_vars(MainValidate)
  /\ WF_vars(Scrape)
  /\ WF_position(CallReturns("earlyCheck"))
  /\ WF_position(CallReturns("process"))
  /\ WF_position(CallReturns("ai"))
  /\ WF_vars(Backoff)
  /\ WF_position(CallReturns("insert"))
  /\ WF_vars(Delay500)
  /\ WF_vars(Delay3000)

SpecRun == Init /\ [][NextCards]_vars /\ RunFairness

InitFn ==
  /\ env = Credentials
  /\ pages = [s \in Sources |-> << >>]
  /\ run = 1
  /\ pc = "library"
  /\ i = 1 /\ j = 1 /\ k = 1
  /\ scraped = << >> /\ newAdvisors = << >> /\ prioritizedAdvisors = << >>
  /\ attempt = 1 /\ lastError = "none" /\ rewrittenData = NoData
  /\ attemptResult = "none" /\ aiTrace = << >>
  /\ totalSuccess = 0 /\ totalSkipped = 0 /\ totalErrors = 0 /\ totalScraped = 0
  /\ db = << >> /\ dbFailures = 0
  /\ apiPosts = 0 /\ apiStatus = 0 /\ apiReq = NoRequest
  /\ ServerStart
  /\ requests = {} /\ visited = {}
  /\ outcome = [c \in Candidates |-> NoOutcome]
  /\ prevAdded = {}
  /\ processed = << >>
  /\ fnCall = NoCall

CallGenerateAdvisorSlug ==
  /\ fnCall.fn = "none"
  /\ \E name \in NameInputs, city \in CityInputs, primarySpecialty \in SpecialtyInputs :
       fnCall' = [fn |-> "generateAdvisorSlug",
                  args |-> <<name, city, primarySpecialty>>,
                  text |-> generateAdvisorSlug(name, city, primarySpecialty),
                  number |-> 0,
                  list |-> << >>]
  /\ UNCHANGED <<pipelineVars, serverVars>>

CallCalculatePriorityScore ==
  /\ fnCall.fn = "none"
  /\ \E advisor \in ScoreInputs :
       fnCall' = [fn |-> "calculatePriorityScore",
                  args |-> <<advisor>>,
                  text |-> Empty,
                  number |-> calculatePriorityScore(advisor),
                  list |-> << >>]
  /\ UNCHANGED <<pipelineVars, serverVars>>

CallNormalizeCity ==
  /\ fnCall.fn = "none"
  /\ \E city \in CityTexts :
       fnCall' = [fn |-> "normalizeCity",
                  args |-> <<city>>,
                  text |-> normalizeCity(city),
                  number |-> 0,
                  list |-> << >>]
  /\ UNCHANGED <<pipelineVars, serverVars>>

\* normalizeCity applied to a text normalizeCity returned
CallNormalizeCityAgain ==
  /\ fnCall.fn = "normalizeCity"
  /\ fnCall' = [fn |-> "normalizeCityAgain",
                args |-> <<fnCall.args[1], fnCall.text>>,
                text |-> normalizeCity(fnCall.text),
                number |-> 0,
                list |-> << >>]
  /\ UNCHANGED <<pipelineVars, serverVars>>

CallNormalizeState ==
  /\ fnCall.fn = "none"
  /\ \E state \in StateTexts :
       fnCall' = [fn |-> "normalizeState",
                  args |-> <<state>>,
                  text |-> normalizeState(state),
                  number |-> 0,
                  list |-> << >>]
  /\ UNCHANGED <<pipelineVars, serverVars>>

CallParseWealthtenderAdvisors ==
  /\ fnCall.fn = "none"
  /\ \E content \in WealthtenderContents, limit \in {1, DEFAULT_LIMIT} :
       fnCall' = [fn |-> "parseWealthtenderAdvisors",
                  args |-> <<content, limit>>,
                  text |-> Empty,
                  number |-> Len(execAll(cardPattern, content, 0)),
                  list |-> parseWealthtenderAdvisors(content, limit)]
  /\ UNCHANGED <<pipelineVars, serverVars>>

CallParseWealthtenderAlternative ==
  /\ fnCall.fn = "none"
  /\ \E content \in WealthtenderContents, limit \in {1, DEFAULT_LIMIT} :
       fnCall' = [fn |-> "parseWealthtenderAlternative",
                  args |-> <<content, limit>>,
                  text |-> Empty,
                  number |-> 0,
                  list |-> parseWealthtenderAlternative(content, limit)]
  /\ UNCHANGED <<pipelineVars, serverVars>>

CallParseSamslistAdvisors ==
  /\ fnCall.fn = "none"
  /\ \E content \in SamslistContents, limit \in {1, DEFAULT_LIMIT} :
       fnCall' = [fn |-> "parseSamslistAdvisors",
                  args |-> <<content, limit>>,
                  text |-> Empty,
                  number |-> 0,
                  list |-> parseSamslistAdvisors(content, limit)]
  /\ UNCHANGED <<pipelineVars, serverVars>>

ListingUrls ==
  { <<"h", "t", "t", "p", "s", ":", "/", "/", "w", "e", "a", "l", "t", "h", "t", "e", "n", "d", "e", "r", ".", "c", "o", "m", "/", "f", "i", "n", "a", "n", "c", "i", "a", "l", "-", "a", "d", "v", "i", "s", "o", "r", "s", "/">>,
    <<"h", "t", "t", "p", "s", ":", "/", "/", "s", "a", "m", "s", "l", "i", "s", "t", ".", "c", "o", "/", "a", "d", "v", "i", "s", "o", "r", "s">>,
    <<"h", "t", "t", "p", "s", ":", "/", "/", "e", "x", "a", "m", "p", "l", "e", ".", "c", "o", "m", "/", "a", "d", "v", "i", "s", "o", "r", "s">> }

\* what firecrawl.scrape can do
Fetches ==
  { [throws |-> TRUE, error |-> <<"E", "r", "r", "o", "r", ":", " ", "t", "i", "m", "e", "o", "u", "t">>, markdown |-> Empty],
    [throws |-> FALSE, error |-> Empty, markdown |-> Empty] }
    \cup { [throws |-> FALSE, error |-> Empty, markdown |-> c] :
           c \in {DocumentedCard, ThreeImageCard, SamslistListing, NoResults} }

CallScrapeAdvisorsFromListingPage ==
  /\ fnCall.fn = "none"
  /\ \E url \in ListingUrls, fetched \in Fetches :
       LET result == scrapeAdvisorsFromListingPage(url, fetched, DEFAULT_LIMIT)
       IN  fnCall' = [fn |-> "scrapeAdvisorsFromListingPage",
                      args |-> <<url, fetched, result.success>>,
                      text |-> result.error,
                      number |-> Len(result.patterns),
                      list |-> result.advisors]
  /\ UNCHANGED <<pipelineVars, serverVars>>

\* specialties as the parsers give them: none, the defaults, one per
\* credential, and a listing's comma-separated text cut to 5 entries
ScrapedSpecialties ==
  { << >>,
    <<<<"T", "a", "x", " ", "P", "l", "a", "n", "n", "i", "n", "g">>>>,
    <<<<"F", "i", "n", "a", "n", "c", "i", "a", "l", " ", "P", "l", "a", "n", "n", "i", "n", "g">>, <<"W", "e", "a", "l", "t", "h", " ", "M", "a", "n", "a", "g", "e", "m", "e", "n", "t">>>>,
    <<<<"T", "a", "x", " ", "P", "l", "a", "n", "n", "i", "n", "g">>, <<"F", "i", "n", "a", "n", "c", "i", "a", "l", " ", "P", "l", "a", "n", "n", "i", "n", "g">>, <<"E", "x", "i", "t", " ", "P", "l", "a", "n", "n", "i", "n", "g">>, <<"R", "e", "t", "i", "r", "e", "m", "e", "n", "t", " ", "P", "l", "a", "n", "n", "i", "n", "g">>, <<"I", "n", "v", "e", "s", "t", "m", "e", "n", "t", " ", "M", "a", "n", "a", "g", "e", "m", "e", "n", "t">>>>,
    <<<<"E", "s", "t", "a", "t", "e">>, <<"T", "a", "x", " ", "P", "l", "a", "n", "n", "i", "n", "g">>, <<"E", "s", "t", "a", "t", "e">>>> }

\* specialties in rewrittenData: the model's answer or the fallback's
RewrittenSpecialties ==
  { << >>,
    AiResult.specialties,
    generateFallbackBio(JaneDoe.name, JaneDoe.designation, <<"D", "u", "l", "u", "t", "h", ",", " ", "G", "A">>, Empty).specialties,
    <<<<"R", "i", "s", "k", " ", "M", "a", "n", "a", "g", "e", "m", "e", "n", "t">>, <<"T", "a", "x", " ", "P", "l", "a", "n", "n", "i", "n", "g">>, <<"C", "a", "p", "t", "i", "v", "e", " ", "I", "n", "s", "u", "r", "a", "n", "c", "e">>, <<"R", "i", "s", "k", " ", "M", "a", "n", "a", "g", "e", "m", "e", "n", "t">>, <<"E", "s", "t", "a", "t", "e">>>> }

\* processAndInsertAdvisor for a new advisor: the slug and the row it inserts
CallProcessAndInsertAdvisor ==
  /\ fnCall.fn = "none"
  /\ \E scrapedSpecialties \in ScrapedSpecialties, rewrittenSpecialties \in RewrittenSpecialties :
       LET advisor   == [JaneDoe EXCEPT !.specialties = scrapedSpecialties]
           rewritten == [bio |-> AiResult.bio, specialties |-> rewrittenSpecialties]
           slug      == generateAdvisorSlug(advisor.name, normalizeCity(advisor.city),
                                            primaryOf(advisor))
           row       == advisorRow(<< >>, advisor, rewritten, slug)
       IN  fnCall' = [fn |-> "processAndInsertAdvisor",
                      args |-> <<advisor, rewritten>>,
                      text |-> row.slug,
                      number |-> 0,
                      list |-> row.specialties]
  /\ UNCHANGED <<pipelineVars, serverVars>>

\* ------------------------------------------------------------------------
\* server/routes.ts (advisor hub): the GET routes under /api/directory in
\* the order of their registration. A path is its sequence of segments; a
\* segment of a route that starts with a colon is a parameter.
\* ------------------------------------------------------------------------
RouteParams == {":slug", ":specialty", ":city", ":state"}

DirectoryRoutes ==
  << <<"api", "directory", "specialties">>,
     <<"api", "directory", "cities">>,
     <<"api", "directory", "specialty", ":slug">>,
     <<"api", "directory", "location", ":slug">>,
     <<"api", "directory", ":specialty", ":city">>,
     <<"api", "directory", "sitemap-data">>,
     <<"api", "directory", "top-cities">>,
     <<"api", "directory", "related", ":state">> >>

\* a route's path matches a request path: as many segments, a parameter
\* taking any segment and any other segment taking itself
routeMatches(route, path) ==
  /\ Len(route) = Len(path)
  /\ \A n \in DOMAIN route : route[n] \in RouteParams \/ route[n] = path[n]

NoRoute == << >>

\* the router gives the request to the first registered route that
\* matches; none of these handlers calls next()
routeFor(routes, path) ==
  IF \E n \in DOMAIN routes : routeMatches(routes[n], path)
  THEN routes[CHOOSE n \in DOMAIN routes :
                /\ routeMatches(routes[n], path)
                /\ \A p \in 1..(n - 1) : ~routeMatches(routes[p], path)]
  ELSE NoRoute

DirectoryPaths ==
  { <<"api", "directory", "related", "GA">>,
    <<"api", "directory", "related", "ga">>,
    <<"api", "directory", "tax-planning", "duluth-ga">>,
    <<"api", "directory", "specialty", "tax-planning">>,
    <<"api", "directory", "location", "duluth-ga">>,
    <<"api", "directory", "specialties">>,
    <<"api", "directory", "cities">>,
    <<"api", "directory", "sitemap-data">>,
    <<"api", "directory", "top-cities">>,
    <<"api", "directory">> }

\* GET of a path under /api/directory: which handler answers
CallDirectoryRoute ==
  /\ fnCall.fn = "none"
  /\ \E path \in DirectoryPaths :
       fnCall' = [fn |-> "GET", args |-> <<path>>, text |-> Empty, number |-> 0,
                  list |-> routeFor(DirectoryRoutes, path)]
  /\ UNCHANGED <<pipelineVars, serverVars>>

NextFn ==
  \/ CallGenerateAdvisorSlug
  \/ CallCalculatePriorityScore
  \/ CallNormalizeCity
  \/ CallNormalizeCityAgain
  \/ CallNormalizeState
  \/ CallParseWealthtenderAdvisors
  \/ CallParseWealthtenderAlternative
  \/ CallParseSamslistAdvisors
  \/ CallScrapeAdvisorsFromListingPage
  \/ CallProcessAndInsertAdvisor
  \/ CallDirectoryRoute

SpecFn == InitFn /\ [][NextFn]_vars

\* ------------------------------------------------------------------------
\* Properties of the pipeline (specification Spec)
\* ------------------------------------------------------------------------
advisorOf(candidate) == pages[candidate[1]][candidate[2]]

RowsWithSlug(slug) == {n \in DOMAIN db : db[n].slug = slug}

candidateAt(p) == <<processed[p][1], processed[p][2]>>

CountOf(status) == Cardinality({c \in Candidates : outcome[c].status = status})

isFallbackBioFor(bio, advisor) ==
  /\ includes(bio, advisor.name)
  /\ includes(bio, advisor.designation)
  /\ bio # AiResult.bio

\* C2 as stated: once all three AI attempts have failed for a candidate and
\* its outcome is recorded, one row with the fallback bio (naming the advisor
\* and the designation verbatim) is stored for it and the outcome is success.
C2_Original ==
  \A c \in Candidates :
    outcome[c].aiExhausted /\ outcome[c].status # "none" =>
      /\ outcome[c].status = "success"
      /\ \E n \in DOMAIN db :
           /\ db[n].slug = slugOf(advisorOf(c))
           /\ db[n].name = advisorOf(c).name
           /\ isFallbackBioFor(db[n].bio, advisorOf(c))

\* C2 amended: after three failed AI attempts the insert is still made, with
\* the fallback bio; if it stores the row, the row carries the fallback bio
\* and the outcome is success; the outcome is an error only if the insert
\* itself fails (storage error or slug collision), and never a skip.
C2_FallbackPersisted ==
  \A c \in Candidates :
    outcome[c].aiExhausted =>
      /\ pc = "insert" /\ outcome[c].status = "none" =>
           isFallbackBioFor(rewrittenData.bio, advisorOf(c))
      /\ outcome[c].status # "none" =>
           /\ outcome[c].insert # "none"
           /\ outcome[c].insert = "stored" =>
                /\ outcome[c].status = "success"
                /\ \E n \in DOMAIN db :
                     /\ db[n].slug = slugOf(advisorOf(c))
                     /\ db[n].name = advisorOf(c).name
                     /\ isFallbackBioFor(db[n].bio, advisorOf(c))
           /\ outcome[c].insert # "stored" => outcome[c].status = "error"

\* C2 witness: a row was stored after three failed attempts
C2_Witness ==
  \E c \in Candidates :
    /\ outcome[c].aiExhausted
    /\ outcome[c].insert = "stored"
    /\ outcome[c].status = "success"

\* C3: in a later run over the same content, an advisor added by an earlier
\* run gets no AI call and no new row, storage holds exactly one row with its
\* slug, and when the run reaches its summary having scraped the advisor's
\* source the advisor has been reported as skipped.
C3_SecondRunSkips ==
  \A c \in prevAdded :
    /\ ~outcome[c].rewriter
    /\ outcome[c].status \in {"none", "skipped"}
    /\ outcome[c].insert = "none"
    /\ Cardinality(RowsWithSlug(slugOf(advisorOf(c)))) = 1
    /\ pc = "done" /\ c[1] \in visited => outcome[c].status = "skipped"

\* C3 witness: a second run has ended with every advisor of the first run
\* reported as skipped
C3_Witness ==
  /\ run = 2
  /\ pc = "done"
  /\ Cardinality(prevAdded) >= 2
  /\ \A c \in prevAdded : outcome[c].status = "skipped"

\* C6: rewriteBioForSEO calls the model at most 3 times; a call that returns
\* ends it with that result; a failed call k < 3, whatever the failure
\* (rejected request, unexpected content, malformed JSON), is followed by a
\* sleep of k * 2000 ms and then call k + 1; the third failed call is followed
\* by no sleep but by the throw of that call's error.
C6_RetryPolicy ==
  /\ Cardinality({n \in DOMAIN aiTrace : aiTrace[n].ev \in {"returned", "failed"}}) <= 3
  /\ \A n \in DOMAIN aiTrace :
       LET e == aiTrace[n]
       IN  /\ e.ev = "returned" =>
                /\ n = Len(aiTrace)
                /\ pc = "insert"
                /\ rewrittenData = AiResult
           /\ e.ev = "failed" /\ e.attempt < 3 =>
                /\ n = Len(aiTrace) => pc = "backoff"
                /\ n < Len(aiTrace) =>
                     /\ aiTrace[n + 1].ev = "sleep"
                     /\ aiTrace[n + 1].ms = e.attempt * 2000
                /\ n + 1 < Len(aiTrace) =>
                     /\ aiTrace[n + 2].ev \in {"returned", "failed"}
                     /\ aiTrace[n + 2].attempt = e.attempt + 1
           /\ e.ev = "failed" /\ e.attempt >= 3 =>
                /\ e.attempt = 3
                /\ n + 1 = Len(aiTrace)
                /\ aiTrace[n + 1].ev = "throw"
                /\ aiTrace[n + 1].error = attemptResult
                /\ attemptResult \in AiFailures
           /\ e.ev = "sleep" => n > 1 /\ aiTrace[n - 1].ev = "failed"
           /\ e.ev \in {"returned", "failed"} =>
                e.attempt = 1 + Cardinality({m \in 1..(n - 1) : aiTrace[m].ev = "failed"})
  /\ pc = "ai" /\ attempt > 1 => aiTrace # << >> /\ aiTrace[Len(aiTrace)].ev = "sleep"

\* C6 witness: three failures, the first a rejected request and the last a
\* malformed answer, with sleeps of 2000 and 4000 ms between them
C6_Witness ==
  /\ Len(aiTrace) = 6
  /\ aiTrace[2].ms = 2000
  /\ aiTrace[4].ms = 4000
  /\ aiTrace[6].ev = "throw"
  /\ aiTrace[6].error = "parseFailed"
  /\ lastError = "parseFailed"

\* C7 as stated: no failure about one candidate or one source aborts the
\* run, so a run that has entered the pipeline never ends other than by
\* reaching its final summary.
C7_NeverAborted == pc # "exitFailed"

\* C8 as stated: a candidate whose insert was rejected for its slug being
\* taken is counted as skipped (a duplicate), not as an error.
C8_CollisionCountedAsDuplicate ==
  \A c \in Candidates :
    outcome[c].insert = "collided" => outcome[c].status = "skipped"

\* C9: the candidates given to processAndInsertAdvisor are taken source by
\* source in URL order and, within a source, by descending priority score
\* (the score calculatePriorityScore gives the scraped record) with equal
\* scores in parse order; a candidate's outcome is recorded before the next
\* candidate is taken up, and before the next source is scraped.
C9_ProcessingOrder ==
  /\ \A p, q \in DOMAIN processed :
       p < q =>
         /\ processed[p][1] <= processed[q][1]
         /\ processed[p][1] = processed[q][1] =>
              /\ processed[p][3] >= processed[q][3]
              /\ processed[p][3] = processed[q][3] => processed[p][2] < processed[q][2]
         /\ outcome[candidateAt(p)].status # "none"
  /\ \A p \in DOMAIN processed :
       /\ processed[p][1] <= i
       /\ pc \in {"scrape", "earlyCheck", "delay3000", "done"} =>
            outcome[candidateAt(p)].status # "none"
       /\ pc = "scrape" => processed[p][1] < i
  /\ processed # << >> =>
       processed[Len(processed)][3] =
         calculatePriorityScore(advisorOf(candidateAt(Len(processed))))

\* C9 witness: a source whose three candidates were all processed, two of
\* equal score in parse order ahead of a lower one parsed before them
C9_Witness ==
  /\ Len(processed) >= 3
  /\ processed[1][1] = processed[3][1]
  /\ processed[1][3] = processed[2][3]
  /\ processed[1][2] < processed[2][2]
  /\ processed[2][3] > processed[3][3]
  /\ processed[3][2] < processed[1][2]
  /\ outcome[candidateAt(3)].status # "none"

\* C10: with a required credential missing, the script makes no scrape
\* request, AI call or storage access and gets no further than its exit
\* with failure.
C10_NoWorkWithoutCredentials ==
  Credentials \ env # {} =>
    /\ requests = {}
    /\ pc \in {"import", "main", "exitConfig"}

\* C10 witness: the script has exited over a missing AI key that the
\* module imports let pass
C10_Witness ==
  /\ "ANTHROPIC_API_KEY" \notin env
  /\ "DATABASE_URL" \in env
  /\ pc = "exitConfig"

\* ------------------------------------------------------------------------
\* Properties of the pure helpers (specification SpecFn)
\* ------------------------------------------------------------------------
\* C4 as stated: a slug has at most 100 characters, all of them lower-case
\* letters, digits or hyphens, and neither starts nor ends with a hyphen,
\* also when the 100-character cut applies.
C4_SlugShape ==
  fnCall.fn = "generateAdvisorSlug" =>
    /\ Len(fnCall.text) <= 100
    /\ \A n \in 1..Len(fnCall.text) :
         fnCall.text[n] \in LowerLetters \cup Digits \cup {"-"}
    /\ fnCall.text # Empty =>
         fnCall.text[1] # "-" /\ fnCall.text[Len(fnCall.text)] # "-"

HighMatches(text) ==
  Cardinality({n \in DOMAIN HIGH_PRIORITY_KEYWORDS : includes(text, HIGH_PRIORITY_KEYWORDS[n])})

MediumMatches(text) ==
  Cardinality({n \in DOMAIN MEDIUM_PRIORITY_KEYWORDS : includes(text, MEDIUM_PRIORITY_KEYWORDS[n])})

\* C5: the score is min(100, min(50, 10 H) + min(25, 5 M) + 15 if the
\* designation or the search text contains cpa + 10 if a specialty is
\* present), H and M counting the high and medium keywords that occur in the
\* lower-cased search text; it lies in 0..100.
C5_ScoreFormula ==
  fnCall.fn = "calculatePriorityScore" =>
    LET advisor == fnCall.args[1]
        text    == searchTextOf(advisor)
        cpa     == IF includes(advisor.designation, <<"C", "P", "A">>) \/ includes(text, <<"c", "p", "a">>)
                   THEN 15 ELSE 0
        spec    == IF advisor.specialties # << >> THEN 10 ELSE 0
    IN  /\ fnCall.number = Min(100, Min(50, 10 * HighMatches(text))
                                    + Min(25, 5 * MediumMatches(text)) + cpa + spec)
        /\ fnCall.number \in 0..100

\* C5 witness: an advisor with more than five high and five medium keywords,
\* a cpa mention outside the designation and a specialty scores 100
C5_Witness ==
  /\ fnCall.fn = "calculatePriorityScore"
  /\ HighMatches(searchTextOf(fnCall.args[1])) > 5
  /\ MediumMatches(searchTextOf(fnCall.args[1])) > 5
  /\ ~includes(fnCall.args[1].designation, <<"C", "P", "A">>)
  /\ fnCall.number = 100

\* ------------------------------------------------------------------------
\* Properties of the normalisers (specification SpecFn)
\* ------------------------------------------------------------------------
IsNickname(city) == HasKey(CITY_NORMALIZATIONS, "key", trim(toLowerCase(city)))

CanonicalOf(city) == Lookup(CITY_NORMALIZATIONS, "key", trim(toLowerCase(city))).value

\* C11: for a city whose trimmed lower-case form is a key of the nickname
\* table, normalizeCity returns the table's canonical name, and normalizeCity
\* of that result is the same result again.
C11_NicknameIdempotent ==
  /\ fnCall.fn = "normalizeCity" /\ IsNickname(fnCall.args[1])
       => fnCall.text = CanonicalOf(fnCall.args[1])
  /\ fnCall.fn = "normalizeCityAgain" /\ IsNickname(fnCall.args[1])
       => /\ fnCall.args[2] = CanonicalOf(fnCall.args[1])
          /\ fnCall.text = fnCall.args[2]

\* C11 witness: a nickname written with capitals and surrounding blanks was
\* normalised twice
C11_Witness ==
  /\ fnCall.fn = "normalizeCityAgain"
  /\ IsNickname(fnCall.args[1])
  /\ fnCall.args[1] # trim(toLowerCase(fnCall.args[1]))
  /\ fnCall.text # Empty

IsStateCode(text) == HasKey(STATE_NAMES, "abbr", text)

\* C12: normalizeState returns a known two-letter code upper-cased and
\* trimmed, the code of a full state name written in any letter case, and
\* otherwise the first two characters of the trimmed upper-cased input; the
\* result never has more than 2 characters.
C12_StateCode ==
  fnCall.fn = "normalizeState" =>
    LET state == fnCall.args[1]
        upper == trim(toUpperCase(state))
        named == { n \in DOMAIN STATE_NAMES : toUpperCase(STATE_NAMES[n].name) = upper }
    IN  /\ Len(fnCall.text) <= 2
        /\ IsStateCode(upper) => fnCall.text = upper
        /\ ~IsStateCode(upper) /\ named # {}
             => \A n \in named : fnCall.text = STATE_NAMES[n].abbr
        /\ ~IsStateCode(upper) /\ named = {}
             => fnCall.text = SubSeq(upper, 1, Min(2, Len(upper)))

\* C12 witness: a full state name in lower case gave its code
C12_Witness ==
  /\ fnCall.fn = "normalizeState"
  /\ fnCall.args[1] = <<"g", "e", "o", "r", "g", "i", "a">>
  /\ fnCall.text = <<"G", "A">>

\* ------------------------------------------------------------------------
\* Properties of storage under the script and the advisor endpoints
\* (specification SpecWithUpdates)
\* ------------------------------------------------------------------------
\* C13: no two persisted advisors have the same slug, and a create request
\* that storage answered while its slug was taken got 409 and added no row.
C13_SlugUnique ==
  /\ \A a, b \in DOMAIN db : db[a].slug = db[b].slug => a = b
  /\ apiReq.route = "POST /api/advisors" /\ apiReq.valid /\ apiReq.found /\ apiStatus # 500
       => apiStatus = 409 /\ ~apiReq.changed

\* C13 witness: an update that would have given a second row a slug already
\* persisted by the script was refused
C13_Witness ==
  /\ apiReq.route = "PATCH /api/advisors/:id"
  /\ apiReq.found /\ ~apiReq.changed /\ apiStatus = 500
  /\ Len(db) >= 2
  /\ totalSuccess >= 1
  /\ dbFailures = 0

\* ------------------------------------------------------------------------
\* Properties of the advisor hub's endpoints (specification SpecApi)
\* ------------------------------------------------------------------------
LeadsReferToAdvisors ==
  \A l \in DOMAIN leads : \E a \in DOMAIN db : db[a].id = leads[l].advisorId

UnknownAdvisorRefused ==
  apiReq.route = "POST /api/leads" /\ apiReq.valid /\ ~apiReq.found /\ apiStatus # 500
    => apiStatus = 404 /\ ~apiReq.changed

LeadsKept == \A n \in DOMAIN leads : n \in DOMAIN leads' /\ leads'[n] = leads[n]

\* C14: every persisted lead references an advisor that is in storage; a
\* valid POST /api/leads naming no advisor that storage answered got 404 and
\* created no lead; and no step changes or removes a lead row.
C14_LeadsReferToAdvisors ==
  /\ [](LeadsReferToAdvisors /\ UnknownAdvisorRefused)
  /\ [][LeadsKept]_vars

\* C14 witness: with a lead persisted, a request naming an unknown advisor
\* was answered 404
C14_Witness ==
  /\ Len(leads) >= 1
  /\ apiReq.route = "POST /api/leads"
  /\ apiStatus = 404

BodyRoutes == {"POST /api/advisors", "PATCH /api/advisors/:id", "POST /api/leads", "POST /api/blog"}

\* C15 as stated: an endpoint that takes a body answers a body that fails
\* the entity's validation rules with 400 and leaves storage unchanged.
C15_InvalidBodyRefused ==
  apiReq.route \in BodyRoutes /\ ~apiReq.valid => apiStatus = 400 /\ ~apiReq.changed

SingleRowRoutes ==
  {"GET /api/advisors/:id", "GET /api/advisors/slug/:slug", "PATCH /api/advisors/:id",
   "GET /api/seo/advisor/:slug", "GET /api/blog/:slug"}

\* C16 as stated: an endpoint that addresses one advisor or blog post answers
\* 404 when there is no such row (storage having answered) and changes nothing.
C16_MissingRowNotFound ==
  apiReq.route \in SingleRowRoutes /\ ~apiReq.found /\ apiStatus # 500
    => apiStatus = 404 /\ ~apiReq.changed

\* ------------------------------------------------------------------------
\* Delays of runScraperPipeline (specification Spec)
\* ------------------------------------------------------------------------
Processing == {"process", "ai", "backoff", "insert"}

\* C19 as stated: the scrape request of the next source is only ever
\* reached through the 3000 ms delay, whatever the earlier source's
\* outcome, and the processing of a candidate is always followed by the
\* 500 ms delay.
C19_DelaysBetweenSources ==
  [][ /\ (pc' = "scrape" /\ i' = i + 1) => pc = "delay3000"
      /\ (pc \in Processing /\ pc' \notin Processing) => pc' = "delay500" ]_vars

\* ------------------------------------------------------------------------
\* Properties of the dealer app (specification SpecDealer)
\* ------------------------------------------------------------------------
\* C17 as stated: a PATCH /api/vehicles/:id that moved the stored status from
\* a non-active value to active has every transaction of the vehicle
\* cancelled when it is answered; a PATCH that did not cancels none; and no
\* cancelled transaction is listed among the dealer's transactions. Only
\* requests answered 200 are looked at.
C17_RelistCancels ==
  /\ dealerReq.route = "PATCH /api/vehicles/:id" /\ dealerReq.status = 200
       => /\ dealerReq.moved => dealerReq.cancelledAll
          /\ ~dealerReq.moved => dealerReq.flipped = {}
  /\ \A t \in dealerReq.listed : ~t.cancelled

\* ------------------------------------------------------------------------
\* Properties of the parsers (specification SpecFn)
\* ------------------------------------------------------------------------
Parsers == {"parseWealthtenderAdvisors", "parseWealthtenderAlternative", "parseSamslistAdvisors"}

\* C20 as stated: the list one parse pass returns never holds two records
\* with the same name, also when two cards differ only in the credentials
\* after the name.
C20_NoDuplicateNames ==
  fnCall.fn \in Parsers
    => \A a, b \in DOMAIN fnCall.list : fnCall.list[a].name = fnCall.list[b].name => a = b

\* the records the primary pattern of the url's source yields
primaryRecords(url, content) ==
  IF detectSource(url) = "samslist" THEN parseSamslistAdvisors(content, DEFAULT_LIMIT)
  ELSE primaryCards(content, DEFAULT_LIMIT)

\* C21 as stated: a scrape reports a failure as success = false with an
\* error; and when the primary pattern of the source yields no record, a
\* further pattern is applied to the content before the list is returned,
\* for wealthtender, samslist and unknown urls alike.
C21_FallbackEverySource ==
  fnCall.fn = "scrapeAdvisorsFromListingPage"
    => /\ ~fnCall.args[3] => fnCall.text # Empty /\ fnCall.list = << >>
       /\ fnCall.args[3] /\ primaryRecords(fnCall.args[1], fnCall.args[2].markdown) = << >>
            => fnCall.number >= 2

\* ------------------------------------------------------------------------
\* Properties of a run over one card (specification SpecCards)
\* ------------------------------------------------------------------------
\* C18 as stated: when the run is over, the source with the card of
\* Jane Doe, CPA of Duluth, GA was scraped and no storage operation failed,
\* the table holds exactly one advisor, of city Duluth, state GA and
\* designation CPA, whose slug begins with jane-doe-duluth, whichever
\* pattern extracted the card.
C18_JaneDoeCard ==
  pc = "done" /\ 1 \in visited /\ dbFailures = 0
    => /\ Len(db) = 1
       /\ db[1].city = <<"D", "u", "l", "u", "t", "h">>
       /\ db[1].state = <<"G", "A">>
       /\ db[1].designation = <<"C", "P", "A">>
       /\ startsWith(db[1].slug, <<"j", "a", "n", "e", "-", "d", "o", "e", "-", "d", "u", "l", "u", "t", "h">>)

\* ------------------------------------------------------------------------
\* Properties of one fair run (specification SpecRun)
\* ------------------------------------------------------------------------
Ended == pc \in {"done", "exitConfig", "exitFailed"}

\* the calls of performRewrite made for the candidate in hand
AiCallsMade == Cardinality({n \in DOMAIN aiTrace : aiTrace[n].ev \in {"returned", "failed"}})

\* no candidate is handed to processAndInsertAdvisor twice
ProcessedOnce ==
  \A p, q \in DOMAIN processed : candidateAt(p) = candidateAt(q) => p = q

\* C22: the run ends, also when every AI call fails; at most 3 AI calls are
\* made for a candidate, and a candidate is processed (and so inserted) at
\* most once.
C22_RunTerminates ==
  /\ <>Ended
  /\ [](AiCallsMade <= 3 /\ ProcessedOnce)

\* the run is over and every candidate processed had all its AI calls fail
C22_Witness ==
  /\ pc = "done"
  /\ processed # << >>
  /\ \A p \in DOMAIN processed : outcome[candidateAt(p)].aiExhausted

\* ------------------------------------------------------------------------
\* C23: found = added + skipped + errored at the final summary, every
\* candidate of a successfully scraped source being counted in exactly
\* one of the three totals; during the run the three totals never sum to
\* more than the found total
\* ------------------------------------------------------------------------
Found == {c \in Candidates : c[1] \in visited /\ c[2] \in DOMAIN pages[c[1]]}

CountedAs(total) == Cardinality({c \in Found : outcome[c].status = total})

C23_TotalsAddUp ==
  /\ totalSuccess + totalSkipped + totalErrors <= totalScraped
  /\ pc = "done" =>
       /\ totalScraped = totalSuccess + totalSkipped + totalErrors
       /\ totalScraped = Cardinality(Found)
       /\ totalSuccess = CountedAs("success")
       /\ totalSkipped = CountedAs("skipped")
       /\ totalErrors = CountedAs("error")

C23_Witness ==
  /\ pc = "done"
  /\ totalSuccess > 0 /\ totalSkipped > 0 /\ totalErrors > 0

\* ------------------------------------------------------------------------
\* C24: the persisted specialty list has at most 6 entries and no repeated
\* entry, holds the scraped specialties first in their original order and
\* then the rewriter's or the fallback's; when the scraped record has
\* specialties, the first persisted one is the one the slug was derived from
\* ------------------------------------------------------------------------
firstAt(list, x) == CHOOSE n \in DOMAIN list : list[n] = x /\ \A p \in 1..(n - 1) : list[p] # x

\* x stands before y in list, by their first occurrences
before(list, x, y) == firstAt(list, x) < firstAt(list, y)

C24_SpecialtiesMerged ==
  fnCall.fn = "processAndInsertAdvisor"
    => LET first  == fnCall.args[1].specialties
           second == fnCall.args[2].specialties
           final  == fnCall.list
       IN  /\ Len(final) <= 6
           /\ \A a, b \in DOMAIN final : final[a] = final[b] => a = b
           /\ Range(final) \subseteq Range(first) \cup Range(second)
           /\ Range(first) \subseteq Range(final)
           /\ Len(final) < 6 => Range(second) \subseteq Range(final)
           /\ \A a, b \in DOMAIN final :
                 a < b =>
                   IF final[b] \in Range(first)
                   THEN final[a] \in Range(first) /\ before(first, final[a], final[b])
                   ELSE final[a] \in Range(first) \/ before(second, final[a], final[b])
           /\ first # << >> =>
                 /\ final[1] = first[1]
                 /\ fnCall.text = generateAdvisorSlug(fnCall.args[1].name,
                                                      normalizeCity(fnCall.args[1].city),
                                                      final[1])

\* five scraped specialties and a rewriter's list that repeats one of them
\* and brings more than the one the list has room for
C24_Witness ==
  /\ fnCall.fn = "processAndInsertAdvisor"
  /\ Len(fnCall.args[1].specialties) = 5
  /\ Len(fnCall.list) = 6
  /\ Range(fnCall.args[2].specialties) \cap Range(fnCall.args[1].specialties) # {}
  /\ ~(Range(fnCall.args[2].specialties) \subseteq Range(fnCall.list))

\* ------------------------------------------------------------------------
\* C25: after any interleaving of POST /api/verify-code, the acceptance of
\* an offer by either PATCH route and PATCH /api/vehicles/:id, no vehicle
\* has more than one transaction that is not cancelled
\* ------------------------------------------------------------------------
LiveTransactions(vehicleId) ==
  { t \in TransactionsOf(transactions, vehicleId) : ~transactions[t].cancelled }

C25_OneSalePerVehicle ==
  \A v \in VehicleIds : Cardinality(LiveTransactions(v)) <= 1

\* ------------------------------------------------------------------------
\* C26: with no request in flight and no failed storage call, a buy code's
\* usageCount is the number of verify-code requests that completed a
\* purchase with it
\* ------------------------------------------------------------------------
C26_UsageCountsPurchases ==
  inflight = {} /\ dbFailures = 0
    => \A c \in DOMAIN buyCodes : buyCodes[c].usageCount = purchased[c]

\* ------------------------------------------------------------------------
\* C27: PATCH /api/dealer/offers/:id changes state only for a countered
\* offer: a 404 or 400 answer comes from a request that wrote nothing, and
\* an answered request replaced the status 'countered', by 'accepted' with
\* a pending transaction of its own for 'accept' and by 'declined' for any
\* other action
\* ------------------------------------------------------------------------
C27_DealerOfferFrame ==
  dealerReq.route = "PATCH /api/dealer/offers/:id"
    => /\ dealerReq.status \in {404, 400} => dealerReq.overwrote = "none" /\ dealerReq.txn = 0
       /\ dealerReq.status = 200 =>
            /\ dealerReq.overwrote = "countered"
            /\ dealerReq.action = "accept" =>
                 /\ dealerReq.txn \in DOMAIN transactions
                 /\ transactions[dealerReq.txn].status = "pending"
            /\ dealerReq.action # "accept" => dealerReq.txn = 0

\* ------------------------------------------------------------------------
\* C28: no step changes the status of an offer that is accepted, declined
\* or expired, and expireOldOffers changes only pending offers whose
\* expiry has passed, to expired
\* ------------------------------------------------------------------------
TerminalStatuses == {"accepted", "declined", "expired"}

TerminalOffersStay ==
  /\ \A o \in OfferIds :
       offers[o].status \in TerminalStatuses => offers'[o].status = offers[o].status
  /\ ExpireOldOffers =>
       \A o \in OfferIds :
         offers'[o] # offers[o] =>
           offers[o].status = "pending" /\ offers[o].due /\ offers'[o].status = "expired"

C28_TerminalOffersStay == [][TerminalOffersStay]_vars

\* ------------------------------------------------------------------------
\* C29: GET /api/directory/related/:state is answered by the
\* related-locations handler, never by the golden-page handler
\* /api/directory/:specialty/:city
\* ------------------------------------------------------------------------
C29_RelatedRouteReached ==
  /\ fnCall.fn = "GET"
  /\ Len(fnCall.args[1]) = 4
  /\ fnCall.args[1][3] = "related"
  => fnCall.list = <<"api", "directory", "related", ":state">>

\* ------------------------------------------------------------------------
\* C30: whatever posts were created, GET /api/blog, GET /api/blog/:slug
\* and /sitemap.xml return no post that is not published
\* ------------------------------------------------------------------------
BlogRoutes == {"GET /api/blog", "GET /api/blog/:slug", "GET /sitemap.xml"}

C30_DraftsHidden ==
  apiReq.route \in BlogRoutes /\ apiStatus = 200
    => \A n \in DOMAIN blogPosts :
         blogPosts[n].slug \in apiReq.returned => blogPosts[n].isPublished

====
